---- MODULE Spec2Model ----
(***************************************************************************)
(* Verification model of the wandb client core:                            *)
(*   - the sweep agent            (src/wandb/wandb_agent.py)               *)
(*   - the tfevents consumer      (src/wandb/internal/tb_watcher.py)       *)
(*   - the artifact manifest and the artifacts cache                       *)
(*                                (src/wandb/sdk/wandb_artifacts.py)       *)
(* Each subsystem has its own specification over its own variables; the    *)
(* variables of the other subsystems keep the values they start with.      *)
(***************************************************************************)
EXTENDS Integers, Sequences, FiniteSets, TLC

VARIABLES
    \* ---- sweep agent ----
    now,            \* the clock (time.time() / util.stopwatch_now()), seconds since START_TIME
    function,       \* Agent._function is set: in-process function mode
    count,          \* Agent._count (0: None)
    disableFlapping,\* WANDB_AGENT_DISABLE_FLAPPING == "true"
    running,        \* Agent._running
    failed,         \* Agent._failed
    finished,       \* Agent._finished
    runProcesses,   \* Agent._run_processes: run_id -> AgentProcess
    spawned,        \* the number of AgentProcess objects created so far
    queue,          \* Agent._queue: local commands not yet read
    batch,          \* the commands of the loop over "commands" still to process
    batchSrc,       \* "local" (lines 182-186) or "server" (lines 227-232)
    log,            \* Agent._log: the number of commands processed
    pc,             \* position of Agent.run
    pollSet,        \* run ids of the snapshot (line 196) not yet polled
    runStatus,      \* run_status of this iteration: run ids reported alive
    posExits,       \* history: polls that returned an exit code > 0
    nonZeroExits,   \* history: polls of a subprocess that returned a status other than 0
    failsInWindow,  \* history: polls that returned an exit code > 0 before the window closed
    flapStopped,    \* history: is_flapping() returned true and stopped the agent
    trace,          \* history: the replies, the polls and the interrupts (see NoTrace)
    \* ---- tfevents watcher and consumer ----
    tbNow,          \* time.time()
    tbQueue,        \* TBWatcher._watcher_queue: the events in the priority queue
    nput,           \* the number of events the directory watchers have put
    watchersDone,   \* TBWatcher.finish has shut down and joined every directory watcher
    cStartTime,     \* TBEventConsumer._start_time
    cDelay,         \* TBEventConsumer._delay
    cShutdown,      \* TBEventConsumer._shutdown
    cpc,            \* position of TBEventConsumer._thread_body
    cEvent,         \* its local variable "event"
    handled,        \* history: the events handed to _handle_event, in order
    cHist,          \* the consumer's tb_history and, as history, the rows it saved
    dw,             \* one TBDirWatcher: its flag, its thread and its shutdown_time
    tfCheck,        \* history: the last call of is_tfevents_file_created_by
    tbw,            \* TBWatcher: its _logdirs and _consumer, and what add() has built
    \* ---- TBHistory ----
    hHeap,          \* the dict objects created so far, by object number
    hStep,          \* TBHistory._step
    hData,          \* TBHistory._data: the object in flight
    hAdded,         \* TBHistory._added: the objects appended and not yet returned
    hReturned,      \* history: the rows _get_and_reset returned, as they were then
    hDirect,        \* history: the object in flight was appended by a direct _flush()
    hReused,        \* history: add() or _flush() was called on such an object
    hCalls,         \* history: the numbers of add() and of direct _flush() calls
    \* ---- ArtifactManifestV1 ----
    entriesA,       \* ArtifactManifest.entries of one manifest, in insertion order
    entriesB,       \* the entries of a second manifest, in insertion order
    \* ---- ArtifactsCache ----
    cacheFiles,     \* the files under the cache directory: path -> byte length
    cacheDirs,      \* the directories under the cache directory
    lastLookup,     \* history: the last lookup, its result and what it found
    firstPath,      \* history: the path the first lookup of each key returned
    lastWrite,      \* history: path -> the bytes the last write there wrote
    everWritten,    \* history: the <<path, bytes>> of every write
    writes,         \* history: the number of writes
    \* ---- Artifact ----
    aFinal,         \* Artifact._final
    aDigest,        \* Artifact._digest
    aAddedNew,      \* Artifact._added_new
    aEntries,       \* Artifact._manifest.entries, in insertion order
    aFiles,         \* the files outside the cache: location -> content
    aHandles,       \* the open handles new_file returned
    aOp,            \* history: the last call on the artifact and its outcome
    aPool,          \* the thread pool of a running add_dir and its tasks
    \* ---- manifest JSON ----
    mEntries,       \* ArtifactManifest.entries of the manifest written: path -> entry
    mJson,          \* what to_manifest_json returned
    mRead,          \* the entries of the manifest from_manifest_json made of it
    mStage,         \* "built", "written" (mJson is set) or "read" (mRead is set)
    \* ---- WandbStoragePolicy.store_file ----
    sfBirth,        \* entry.birth_artifact_id of each entry stored
    sfCall,         \* history: the last store_file call, what it did and returned
    \* ---- MultiHandler and the handlers it routes to ----
    hSchemes,       \* the keys of MultiHandler._handlers
    hDefault,       \* MultiHandler._default_handler is a TrackingHandler (not None)
    hCall,          \* history: the last store_path / load_path call and its outcome
    s3Versioning    \* S3Handler._versioning_enabled: "none" (None), "enabled", "disabled"

agentVars == <<now, function, count, disableFlapping, running, failed, finished,
               runProcesses, spawned, queue, batch, batchSrc, log, pc, pollSet,
               runStatus, posExits, nonZeroExits, failsInWindow, flapStopped, trace>>

tbVars == <<tbNow, tbQueue, nput, watchersDone, cStartTime, cDelay, cShutdown,
            cpc, cEvent, handled, cHist, dw, tfCheck, tbw>>

histVars == <<hHeap, hStep, hData, hAdded, hReturned, hDirect, hReused, hCalls>>

manifestVars == <<entriesA, entriesB>>

cacheVars == <<cacheFiles, cacheDirs, lastLookup, firstPath, lastWrite, everWritten, writes>>

cacheHistory == <<lastLookup, firstPath, lastWrite, everWritten, writes>>

artifactVars == <<aFinal, aDigest, aAddedNew, aEntries, aFiles, aHandles, aOp, aPool>>

jsonVars == <<mEntries, mJson, mRead, mStage>>

storeVars == <<sfBirth, sfCall>>

handlerVars == <<hSchemes, hDefault, hCall, s3Versioning>>

vars ==
    <<agentVars, tbVars, histVars, manifestVars, cacheVars, artifactVars, jsonVars, storeVars,
      handlerVars>>

\* A step of one subsystem leaves the others as they are.
OnlyAgent == UNCHANGED <<tbVars, histVars, manifestVars, cacheVars, artifactVars, jsonVars, storeVars, handlerVars>>
OnlyTB == UNCHANGED <<agentVars, histVars, manifestVars, cacheVars, artifactVars, jsonVars, storeVars, handlerVars>>
OnlyHistory == UNCHANGED <<agentVars, tbVars, manifestVars, cacheVars, artifactVars, jsonVars, storeVars, handlerVars>>
OnlyManifest == UNCHANGED <<agentVars, tbVars, histVars, cacheVars, artifactVars, jsonVars, storeVars, handlerVars>>
OnlyCache == UNCHANGED <<agentVars, tbVars, histVars, manifestVars, artifactVars, jsonVars, storeVars, handlerVars>>
OnlyArtifact == UNCHANGED <<agentVars, tbVars, histVars, manifestVars, cacheHistory, jsonVars, storeVars, handlerVars>>
OnlyJson ==
    UNCHANGED <<agentVars, tbVars, histVars, manifestVars, cacheVars, artifactVars, storeVars, handlerVars>>
OnlyStore ==
    UNCHANGED <<agentVars, tbVars, histVars, manifestVars, cacheHistory, artifactVars, jsonVars,
                handlerVars>>
OnlyHandlers ==
    UNCHANGED <<agentVars, tbVars, histVars, manifestVars, cacheHistory, artifactVars, jsonVars,
                storeVars>>

(***************************************************************************)
(*                              SWEEP AGENT                                *)
(***************************************************************************)

\* ---- program constants ----
KILL_DELAY == 30
FLAPPING_MAX_SECONDS == 60
FLAPPING_MAX_FAILURES == 3
START_TIME == 0
\* last_sigterm_time = None
NoTime == -1
SIGTERM == 15
SIGKILL == 9

\* ---- bounds of the model ----
\* The clock advances in steps of ClockStep seconds up to MaxTime.
ClockStep == 10
MaxTime == 70
MaxProcs == 3
MaxCmds == 3
MaxQueue == 1
MaxCount == 1

RunIds == {1, 2}

Commands ==
    [type : {"run", "stop"}, run_id : RunIds]
        \cup {[type |-> "exit", run_id |-> 0], [type |-> "launch", run_id |-> 0]}

HasSig(p, s) == \E i \in DOMAIN p.sigs : p.sigs[i] = s

\* What a child can end with: exit(0), exit(1), death by SIGTERM, death by SIGKILL
\* (subprocess.Popen reports a death by signal N as the return code -N).
ExitCodes(p) ==
    IF HasSig(p, "KILL") THEN {-SIGKILL}
    ELSE IF HasSig(p, "TERM") THEN {0, 1, -SIGTERM}
    ELSE {0, 1}

\* AgentProcess.__init__, and line 386.
NewProcess(fn) ==
    [func |-> fn, alive |-> TRUE, code |-> 0,
     last_sigterm_time |-> NoTime, sigs |-> <<>>, proc_killed |-> FALSE]

\* AgentProcess.poll: the result as [kind, val]; kind "none" is Python's None,
\* "bool" is True, "int" is Popen's return code.
PollResult(p) ==
    IF ~p.func
    THEN IF p.alive THEN [kind |-> "none", val |-> 0]
         ELSE [kind |-> "int", val |-> p.code]
    ELSE IF p.proc_killed THEN [kind |-> "bool", val |-> 1]
    ELSE IF ~p.alive /\ p.code = 0 THEN [kind |-> "bool", val |-> 1]
    ELSE [kind |-> "none", val |-> 0]

\* Mutant: every status other than 0 counts as a failure.
FailingResultNonZero(res) == res.kind = "int" /\ res.val # 0

\* Lines 201-205: the poll result counts as a failure.
FailingResult(res) == res.kind # "bool" /\ res.kind = "int" /\ res.val > 0

\* Mutant: the window of FLAPPING_MAX_SECONDS is not looked at.
IsFlappingNoWindow(f, t) ==
    IF disableFlapping THEN FALSE ELSE f >= FLAPPING_MAX_FAILURES

\* Agent.is_flapping, called after _failed was incremented to f at time t.
IsFlapping(f, t) ==
    IF disableFlapping THEN FALSE
    ELSE IF t < START_TIME + FLAPPING_MAX_SECONDS THEN f >= FLAPPING_MAX_FAILURES
    ELSE FALSE

\* AgentProcess.terminate / AgentProcess.kill
Terminate(p) == [p EXCEPT !.sigs = Append(@, "TERM")]
Kill(p) == [p EXCEPT !.sigs = Append(@, "KILL"),
                     !.proc_killed = IF p.func THEN TRUE ELSE @]

\* Mutant: the kill is sent as soon as KILL_DELAY is reached (>= for >).
StopProcessEager(p, t) ==
    IF p.last_sigterm_time = NoTime
    THEN Terminate([p EXCEPT !.last_sigterm_time = t])
    ELSE IF t >= p.last_sigterm_time + KILL_DELAY
    THEN Kill(p)
    ELSE p

\* Agent._command_stop on the child p at time t.
StopProcess(p, t) ==
    IF p.last_sigterm_time = NoTime
    THEN Terminate([p EXCEPT !.last_sigterm_time = t])
    ELSE IF t > p.last_sigterm_time + KILL_DELAY
    THEN Kill(p)
    ELSE p

CountRuns(s) == Cardinality({i \in DOMAIN s : s[i].type = "run"})
IssuedRuns == spawned + CountRuns(queue) + CountRuns(batch)
IssuedCmds == log + Len(queue) + Len(batch)
MayIssue(c) ==
    /\ IssuedCmds < MaxCmds
    /\ c.type = "run" => IssuedRuns < MaxProcs

\* The history kept beside the agent, when it is on:
\*   drained    the local commands of the last read of the queue (line 182),
\*              until the loop over them is left
\*   replies    the responses put on their resp_queue since (line 186)
\*   polled     the number of polls that reported a child finished
\*   done       the run ids whose poll reported a finished child in this pass
\*              of the loop over the children, until the heartbeat is sent
\*   atPoll     the run ids of the map when that loop began (line 196), until
\*              the heartbeat is sent
\*   interrupts the number of KeyboardInterrupts raised in run()
NoTrace ==
    [on |-> FALSE, drained |-> <<>>, replies |-> <<>>, polled |-> 0, done |-> {},
     atPoll |-> {}, interrupts |-> 0]

\* Agent.__init__
AgentStart ==
    /\ now = START_TIME
    /\ running = TRUE
    /\ failed = 0
    /\ finished = 0
    /\ runProcesses = <<>>
    /\ spawned = 0
    /\ queue = <<>>
    /\ batch = <<>>
    /\ batchSrc = "local"
    /\ log = 0
    /\ pc = "read"
    /\ pollSet = {}
    /\ runStatus = {}
    /\ posExits = 0
    /\ nonZeroExits = 0
    /\ failsInWindow = 0
    /\ flapStopped = FALSE

\* The agent's configuration: function mode, count, flapping protection.
AgentInit ==
    /\ AgentStart
    /\ function \in BOOLEAN
    /\ count \in 0..MaxCount
    /\ disableFlapping \in BOOLEAN
    /\ trace = NoTrace

\* The same agent with its history kept and no count.
AgentTraced ==
    /\ AgentStart
    /\ function \in BOOLEAN
    /\ count = 0
    /\ disableFlapping = FALSE
    /\ trace = [NoTrace EXCEPT !.on = TRUE]

\* An agent of subprocesses, with or without a count, with its history kept.
AgentInterruptible ==
    /\ AgentStart
    /\ function = FALSE
    /\ count \in {0, 1}
    /\ disableFlapping = FALSE
    /\ trace = [NoTrace EXCEPT !.on = TRUE]

\* The agent while another subsystem is looked at.
AgentIdle ==
    /\ AgentStart
    /\ function = FALSE
    /\ count = 0
    /\ disableFlapping = FALSE
    /\ trace = NoTrace

\* Time passes while the agent blocks: in the read of its queue (line 182, up
\* to POLL_INTERVAL) or in a wait for its children (lines 240 and 253).
Tick ==
    /\ pc \in {"read", "except", "wait"}
    /\ OnlyAgent
    /\ now + ClockStep <= MaxTime
    /\ now' = now + ClockStep
    /\ UNCHANGED <<function, count, disableFlapping, running, failed, finished,
                   runProcesses, spawned, queue, batch, batchSrc, log, pc, pollSet,
                   runStatus, posExits, nonZeroExits, failsInWindow, flapStopped, trace>>

\* AgentApi.command: a local command is put on the agent's queue.
UserCommand ==
    /\ pc = "read"
    /\ OnlyAgent
    /\ Len(queue) < MaxQueue
    /\ \E c \in Commands :
        /\ MayIssue(c)
        /\ queue' = Append(queue, c)
    /\ UNCHANGED <<now, function, count, disableFlapping, running, failed, finished,
                   runProcesses, spawned, batch, batchSrc, log, pc, pollSet,
                   runStatus, posExits, nonZeroExits, failsInWindow, flapStopped, trace>>

\* A child ends: by itself, or by the signal it was sent. The agent sees it only
\* in poll() and wait(); an end at another position is the same as one at the
\* next of these.
ChildExit ==
    /\ pc \in {"read", "poll", "except", "wait"}
    /\ OnlyAgent
    /\ \E r \in DOMAIN runProcesses :
        /\ runProcesses[r].alive
        /\ \E c \in ExitCodes(runProcesses[r]) :
            runProcesses' = [runProcesses EXCEPT ![r].alive = FALSE, ![r].code = c]
    /\ UNCHANGED <<now, function, count, disableFlapping, running, failed, finished,
                   spawned, queue, batch, batchSrc, log, pc, pollSet,
                   runStatus, posExits, nonZeroExits, failsInWindow, flapStopped, trace>>

\* Lines 181-184: the loop test passed; read the local commands.
ReadCommands ==
    /\ pc = "read"
    /\ OnlyAgent
    /\ batch' = queue
    /\ queue' = <<>>
    /\ batchSrc' = "local"
    /\ pc' = "cmds"
    /\ trace' = IF trace.on THEN [trace EXCEPT !.drained = queue, !.replies = <<>>]
                ELSE trace
    /\ UNCHANGED <<now, function, count, disableFlapping, running, failed, finished,
                   runProcesses, spawned, log, pollSet,
                   runStatus, posExits, nonZeroExits, failsInWindow, flapStopped>>

\* Agent._command_run: spawn a child and put it in the map (lines 349-387).
CommandRun(c) ==
    /\ runProcesses' =
         [r \in DOMAIN runProcesses \cup {c.run_id} |->
            IF r = c.run_id THEN NewProcess(function) ELSE runProcesses[r]]
    /\ spawned' = spawned + 1
    /\ UNCHANGED running

\* Agent._command_stop
CommandStop(c) ==
    /\ runProcesses' =
         IF c.run_id \in DOMAIN runProcesses
         THEN [runProcesses EXCEPT ![c.run_id] = StopProcess(@, now)]
         ELSE runProcesses
    /\ UNCHANGED <<spawned, running>>

\* Mutant: the children are killed and _running is left as it is.
CommandExitKeepsRunning ==
    /\ runProcesses' = [r \in DOMAIN runProcesses |-> Kill(runProcesses[r])]
    /\ UNCHANGED <<running, spawned>>

\* Agent._command_exit
CommandExit ==
    /\ runProcesses' = [r \in DOMAIN runProcesses |-> Kill(runProcesses[r])]
    /\ running' = FALSE
    /\ UNCHANGED spawned

\* Mutant: no response tells of an exception.
ResponseSilent(c) == [command |-> c, exception |-> FALSE, traceback |-> FALSE]

\* The response of _process_command: it has the keys "exception" and
\* "traceback" when the handling raised (line 277: no such command).
Response(c) ==
    [command |-> c,
     exception |-> c.type \notin {"run", "stop", "exit"},
     traceback |-> c.type \notin {"run", "stop", "exit"}]

\* Agent._process_command on the next command of the batch; the response to
\* a local command is put on its resp_queue (line 186).
ProcessCommand ==
    /\ pc = "cmds"
    /\ OnlyAgent
    /\ batch # <<>>
    /\ LET c == Head(batch) IN
        CASE c.type = "run" -> CommandRun(c)
          [] c.type = "stop" -> CommandStop(c)
          [] c.type = "exit" -> CommandExit
          [] OTHER -> UNCHANGED <<runProcesses, spawned, running>>
    /\ log' = log + 1
    /\ batch' = Tail(batch)
    /\ trace' = IF trace.on /\ batchSrc = "local"
                THEN [trace EXCEPT !.replies = Append(@, Response(Head(batch)))]
                ELSE trace
    /\ UNCHANGED <<now, function, count, disableFlapping, failed, finished,
                   queue, batchSrc, pc, pollSet,
                   runStatus, posExits, nonZeroExits, failsInWindow, flapStopped>>

\* The loop over the commands is over: the local ones are followed by the poll of
\* the children (lines 195-196), the server's by the loop test (line 181).
EndCommands ==
    /\ pc = "cmds"
    /\ OnlyAgent
    /\ batch = <<>>
    /\ IF batchSrc = "local"
       THEN /\ pc' = "poll"
            /\ pollSet' = DOMAIN runProcesses
            /\ runStatus' = {}
            /\ trace' = IF trace.on
                        THEN [trace EXCEPT !.drained = <<>>, !.replies = <<>>,
                                           !.atPoll = DOMAIN runProcesses]
                        ELSE trace
       ELSE /\ pc' = IF running THEN "read" ELSE "finally"
            /\ UNCHANGED <<pollSet, runStatus, trace>>
    /\ UNCHANGED <<now, function, count, disableFlapping, running, failed, finished,
                   runProcesses, spawned, queue, batch, batchSrc, log,
                   posExits, nonZeroExits, failsInWindow, flapStopped>>

\* Mutant: the child that trips the flapping check is cleaned up before the
\* loop is left.
AfterPollCleanupFirst(res, flap) == [cleanup |-> res.kind # "none", break |-> flap]

\* Lines 198-221, what follows a poll: the child is cleaned up (lines
\* 218-221) unless it is alive ("continue") or the flapping check left the
\* loop ("break", line 217).
AfterPoll(res, flap) == [cleanup |-> res.kind # "none" /\ ~flap, break |-> flap]

\* Mutant: every child polled gets an entry.
StatusAfterAll(status, r, res) == status \cup {r}

\* Lines 195 and 198-200: run_status, whose values are all True, as the set of
\* its keys; a child gets its entry when its poll returns None.
StatusAfter(status, r, res) == IF res.kind = "none" THEN status \cup {r} ELSE status

\* Lines 196-221: one pass of the loop over the children.
PollChild ==
    /\ pc = "poll"
    /\ OnlyAgent
    /\ \E r \in pollSet :
        LET res == PollResult(runProcesses[r])
            flap == FailingResult(res) /\ IsFlapping(failed + 1, now)
            after == AfterPoll(res, flap)
        IN
        IF res.kind = "none"
        THEN /\ runStatus' = StatusAfter(runStatus, r, res)
             /\ pollSet' = pollSet \ {r}
             /\ UNCHANGED <<failed, finished, running, runProcesses, posExits,
                            nonZeroExits, failsInWindow, flapStopped, trace>>
        ELSE /\ failed' = IF FailingResult(res) THEN failed + 1 ELSE failed
             /\ posExits' = IF res.kind = "int" /\ res.val > 0
                            THEN posExits + 1 ELSE posExits
             /\ nonZeroExits' = IF res.kind = "int" /\ res.val # 0
                                THEN nonZeroExits + 1 ELSE nonZeroExits
             /\ failsInWindow' =
                    IF res.kind = "int" /\ res.val > 0
                       /\ now < START_TIME + FLAPPING_MAX_SECONDS
                    THEN failsInWindow + 1 ELSE failsInWindow
             /\ IF after.break
                THEN /\ running' = FALSE
                     /\ flapStopped' = TRUE
                     /\ pollSet' = {}
                ELSE /\ pollSet' = pollSet \ {r}
                     /\ UNCHANGED <<running, flapStopped>>
             /\ IF after.cleanup
                THEN /\ runProcesses' =
                          [q \in DOMAIN runProcesses \ {r} |-> runProcesses[q]]
                     /\ finished' = finished + 1
                ELSE UNCHANGED <<runProcesses, finished>>
             /\ trace' = IF trace.on
                          THEN [trace EXCEPT !.polled = @ + 1, !.done = @ \cup {r}]
                          ELSE trace
             /\ runStatus' = StatusAfter(runStatus, r, res)
    /\ UNCHANGED <<now, function, count, disableFlapping, spawned, queue, batch,
                   batchSrc, log, pc>>

\* Mutant: the count is compared with > for >=.
StopRequestedLate(cnt, fin, run) == (cnt # 0 /\ fin > cnt) \/ ~run

\* Line 223: "self._count and self._finished >= self._count or not self._running".
StopRequested(cnt, fin, run) == (cnt # 0 /\ fin >= cnt) \/ ~run

\* Mutant: the "continue" of line 225 is missing.
CountCheckNoContinue ==
    /\ pc = "poll"
    /\ OnlyAgent
    /\ pollSet = {}
    /\ running' = IF StopRequested(count, finished, running) THEN FALSE ELSE running
    /\ pc' = "heartbeat"
    /\ UNCHANGED <<now, function, count, disableFlapping, failed, finished,
                   runProcesses, spawned, queue, batch, batchSrc, log, pollSet,
                   runStatus, posExits, nonZeroExits, failsInWindow, flapStopped, trace>>

\* Lines 223-225.
CountCheck ==
    /\ pc = "poll"
    /\ OnlyAgent
    /\ pollSet = {}
    /\ IF StopRequested(count, finished, running)
       THEN /\ running' = FALSE
            /\ pc' = "finally"
            /\ trace' = IF trace.on THEN [trace EXCEPT !.done = {}, !.atPoll = {}]
                        ELSE trace
       ELSE /\ pc' = "heartbeat"
            /\ UNCHANGED <<running, trace>>
    /\ UNCHANGED <<now, function, count, disableFlapping, failed, finished,
                   runProcesses, spawned, queue, batch, batchSrc, log, pollSet,
                   runStatus, posExits, nonZeroExits, failsInWindow, flapStopped>>

\* Lines 227-231: the heartbeat returns the server's commands.
Heartbeat ==
    /\ pc = "heartbeat"
    /\ OnlyAgent
    /\ \/ batch' = <<>>
       \/ \E c \in Commands :
            /\ MayIssue(c)
            /\ batch' = <<c>>
    /\ batchSrc' = "server"
    /\ pc' = "cmds"
    /\ trace' = IF trace.on THEN [trace EXCEPT !.done = {}, !.atPoll = {}] ELSE trace
    /\ UNCHANGED <<now, function, count, disableFlapping, running, failed, finished,
                   runProcesses, spawned, queue, log, pollSet,
                   runStatus, posExits, nonZeroExits, failsInWindow, flapStopped>>

\* Lines 243-251: terminate every child still in the map.
TerminateAll ==
    /\ pc = "finally"
    /\ OnlyAgent
    /\ runProcesses' = [r \in DOMAIN runProcesses |-> Terminate(runProcesses[r])]
    /\ pc' = "wait"
    /\ UNCHANGED <<now, function, count, disableFlapping, running, failed, finished,
                   spawned, queue, batch, batchSrc, log, pollSet,
                   runStatus, posExits, nonZeroExits, failsInWindow, flapStopped, trace>>

\* Lines 252-253: wait for every child.
WaitAll ==
    /\ pc = "wait"
    /\ OnlyAgent
    /\ \A r \in DOMAIN runProcesses : ~runProcesses[r].alive
    /\ pc' = "done"
    /\ UNCHANGED <<now, function, count, disableFlapping, running, failed, finished,
                   runProcesses, spawned, queue, batch, batchSrc, log, pollSet,
                   runStatus, posExits, nonZeroExits, failsInWindow, flapStopped, trace>>

\* ---- KeyboardInterrupt (ctrl-c) ----

\* Mutant: the handler of the last interrupt sends nothing.
KillAllNone(procs) == procs

\* Lines 256-260: kill every child of the map.
KillAll(procs) == [r \in DOMAIN procs |-> Kill(procs[r])]

Interrupted == IF trace.on THEN [trace EXCEPT !.interrupts = @ + 1] ELSE trace

\* A KeyboardInterrupt inside the main loop (lines 180-232) leaves the try
\* block, and with it the local variables of the loop, for its handler, which
\* waits for the children (lines 234-240).
InterruptLoop ==
    /\ pc \in {"read", "cmds", "poll", "heartbeat"}
    /\ OnlyAgent
    /\ pc' = "except"
    /\ batch' = <<>>
    /\ pollSet' = {}
    /\ runStatus' = {}
    /\ trace' = IF trace.on
                THEN [trace EXCEPT !.interrupts = @ + 1, !.drained = <<>>,
                                   !.replies = <<>>, !.done = {}, !.atPoll = {}]
                ELSE trace
    /\ UNCHANGED <<now, function, count, disableFlapping, running, failed, finished,
                   runProcesses, spawned, queue, batchSrc, log,
                   posExits, nonZeroExits, failsInWindow, flapStopped>>

\* Lines 239-240: every child has been waited for; the finally block follows.
ExceptWaitAll ==
    /\ pc = "except"
    /\ OnlyAgent
    /\ \A r \in DOMAIN runProcesses : ~runProcesses[r].alive
    /\ pc' = "finally"
    /\ UNCHANGED <<now, function, count, disableFlapping, running, failed, finished,
                   runProcesses, spawned, queue, batch, batchSrc, log, pollSet,
                   runStatus, posExits, nonZeroExits, failsInWindow, flapStopped, trace>>

\* Lines 241-242: a KeyboardInterrupt in that wait is passed over; the finally
\* block follows.
InterruptExcept ==
    /\ pc = "except"
    /\ OnlyAgent
    /\ pc' = "finally"
    /\ trace' = Interrupted
    /\ UNCHANGED <<now, function, count, disableFlapping, running, failed, finished,
                   runProcesses, spawned, queue, batch, batchSrc, log, pollSet,
                   runStatus, posExits, nonZeroExits, failsInWindow, flapStopped>>

\* Lines 254-260: a KeyboardInterrupt in the finally block, before or in its
\* wait, kills every child of the map; run() returns.
InterruptFinally ==
    /\ pc \in {"finally", "wait"}
    /\ OnlyAgent
    /\ runProcesses' = KillAll(runProcesses)
    /\ pc' = "done"
    /\ trace' = Interrupted
    /\ UNCHANGED <<now, function, count, disableFlapping, running, failed, finished,
                   spawned, queue, batch, batchSrc, log, pollSet,
                   runStatus, posExits, nonZeroExits, failsInWindow, flapStopped>>

AgentInterrupts ==
    \/ InterruptLoop
    \/ ExceptWaitAll
    \/ InterruptExcept
    \/ InterruptFinally

AgentNext ==
    \/ Tick
    \/ UserCommand
    \/ ChildExit
    \/ ReadCommands
    \/ ProcessCommand
    \/ EndCommands
    \/ PollChild
    \/ CountCheck
    \/ Heartbeat
    \/ TerminateAll
    \/ WaitAll


(***************************************************************************)
(*                        SWEEP AGENT: THE CLAIMS                          *)
(***************************************************************************)

\* The step that processes the command c (Agent._process_command).
Processes(c) ==
    /\ pc = "cmds"
    /\ batch # <<>>
    /\ Head(batch) = c
    /\ log' = log + 1

\* Everything of the agent but its log and its place in the batch.
AgentUnchanged ==
    UNCHANGED <<now, function, count, disableFlapping, running, failed, finished,
                runProcesses, spawned, queue, pollSet, runStatus>>

\* C1: two-stage stop. For a child in the map, the first stop command sends
\* TERM and records last_sigterm_time = now; a later stop no more than
\* KILL_DELAY after last_sigterm_time sends nothing and changes no state of the
\* agent or the child (the command is only logged); a later stop more than
\* KILL_DELAY after it sends KILL.
C1_TwoStageStop ==
    [][\A r \in RunIds :
        (Processes([type |-> "stop", run_id |-> r]) /\ r \in DOMAIN runProcesses) =>
            LET p == runProcesses[r]
                q == runProcesses'[r]
            IN
            /\ p.last_sigterm_time = NoTime =>
                 /\ q.sigs = Append(p.sigs, "TERM")
                 /\ q.last_sigterm_time = now
            /\ (p.last_sigterm_time # NoTime
                    /\ now <= p.last_sigterm_time + KILL_DELAY) => AgentUnchanged
            /\ (p.last_sigterm_time # NoTime
                    /\ now > p.last_sigterm_time + KILL_DELAY) =>
                 /\ q.sigs = Append(p.sigs, "KILL")
                 /\ q.last_sigterm_time = p.last_sigterm_time
      ]_vars

\* C1 witness: a child was sent TERM by a first stop and KILL by a later one.
C1_Witness ==
    \E r \in DOMAIN runProcesses :
        /\ runProcesses[r].sigs = <<"TERM", "KILL">>
        /\ now > runProcesses[r].last_sigterm_time + KILL_DELAY

C4_CountStop ==
    [][/\ (pc = "poll" /\ pollSet = {} /\ count # 0 /\ finished >= count
              /\ pc' # pc) => (~running' /\ pc' = "finally")
       /\ pc \in {"finally", "wait", "done"} => pc' \in {"finally", "wait", "done"}
      ]_vars

\* C4 witness: the agent ended because the count was reached.
C4_Witness ==
    /\ count # 0
    /\ finished >= count
    /\ ~flapStopped
    /\ running = FALSE
    /\ pc = "done"

\* C5: exit command. Processing an exit command, local or from the server,
\* sends KILL to every child in the map and sets running to false; once running
\* is false it stays false and no iteration of the main loop begins.
C5_ExitCommand ==
    [][/\ Processes([type |-> "exit", run_id |-> 0]) =>
            /\ DOMAIN runProcesses' = DOMAIN runProcesses
            /\ \A r \in DOMAIN runProcesses :
                   runProcesses'[r].sigs = Append(runProcesses[r].sigs, "KILL")
            /\ ~running'
       /\ ~running => (~running' /\ (pc' = "read" => pc = "read"))
      ]_vars

\* C5 witness: an exit command from the server killed a child that was never
\* sent TERM, and the agent left its loop.
C5_Witness ==
    /\ batchSrc = "server"
    /\ pc = "finally"
    /\ ~running
    /\ \E r \in DOMAIN runProcesses : runProcesses[r].sigs = <<"KILL">>

\* The positions of the main loop (lines 181-232).
MainLoop == {"read", "cmds", "poll", "heartbeat"}

\* C25: agent command errors. Inside the loop over the local commands drained
\* from the queue, the commands handled so far have each got exactly one
\* response, put on their own reply channel in the order of the commands, so
\* that at the end of the loop every drained command has one; the response to
\* a command whose handling raised (an unknown command type) carries
\* exception and traceback; handling such a command leaves the agent in its
\* loop, running as it was and the map of the children as it was.
C25_CommandErrors ==
    /\ [](trace.on /\ pc = "cmds" /\ batchSrc = "local" =>
            /\ Len(trace.replies) + Len(batch) = Len(trace.drained)
            /\ \A i \in DOMAIN trace.replies :
                  /\ trace.replies[i].command = trace.drained[i]
                  /\ trace.drained[i].type \notin {"run", "stop", "exit"} =>
                        /\ trace.replies[i].exception
                        /\ trace.replies[i].traceback)
    /\ [][Processes([type |-> "launch", run_id |-> 0]) =>
            /\ pc' = "cmds"
            /\ running' = running
            /\ runProcesses' = runProcesses
         ]_vars

\* C25 witness: the loop over the drained commands has ended, the one command
\* of an unknown type got its response with the exception, and the agent runs
\* on with a child in its map.
C25_Witness ==
    /\ pc = "cmds"
    /\ batchSrc = "local"
    /\ batch = <<>>
    /\ Len(trace.replies) = 1
    /\ trace.replies[1].command.type = "launch"
    /\ trace.replies[1].exception
    /\ running
    /\ runProcesses # <<>>

\* C26: shutdown escalation. A first interrupt, in the main loop, takes the
\* agent to a wait for its children that sends them nothing; that wait ends
\* when every child has ended or on a second interrupt, and either way the
\* agent goes on to terminate every remaining child and to wait again; an
\* interrupt there kills every remaining child and ends run(). Without an
\* interrupt run() returns only after every remaining child was sent TERM
\* and has ended.
C26_ShutdownEscalation ==
    /\ [](pc = "done" /\ trace.interrupts = 0 =>
            \A r \in DOMAIN runProcesses :
                /\ HasSig(runProcesses[r], "TERM")
                /\ ~runProcesses[r].alive)
    /\ [][/\ (pc \in MainLoop /\ trace.interrupts' # trace.interrupts) =>
                /\ pc' = "except"
                /\ runProcesses' = runProcesses
          /\ (pc = "except" /\ pc' # pc) =>
                /\ pc' = "finally"
                /\ runProcesses' = runProcesses
                /\ trace.interrupts' = trace.interrupts =>
                      \A r \in DOMAIN runProcesses : ~runProcesses[r].alive
          /\ (pc = "finally" /\ pc' # pc /\ trace.interrupts' = trace.interrupts) =>
                /\ pc' = "wait"
                /\ DOMAIN runProcesses' = DOMAIN runProcesses
                /\ \A r \in DOMAIN runProcesses :
                      runProcesses'[r].sigs = Append(runProcesses[r].sigs, "TERM")
          /\ (pc = "wait" /\ pc' # pc /\ trace.interrupts' = trace.interrupts) =>
                /\ pc' = "done"
                /\ runProcesses' = runProcesses
                /\ \A r \in DOMAIN runProcesses : ~runProcesses[r].alive
          /\ (pc \in {"finally", "wait"} /\ trace.interrupts' # trace.interrupts) =>
                /\ pc' = "done"
                /\ DOMAIN runProcesses' = DOMAIN runProcesses
                /\ \A r \in DOMAIN runProcesses :
                      runProcesses'[r].sigs = Append(runProcesses[r].sigs, "KILL")
          /\ pc = "done" => pc' = "done"
         ]_vars

\* C26 witness: three interrupts; the child alive through all of them was
\* waited for, sent TERM and then KILL.
C26_Witness ==
    /\ pc = "done"
    /\ trace.interrupts = 3
    /\ \E r \in DOMAIN runProcesses : runProcesses[r].sigs = <<"TERM", "KILL">>

\* A child enters the map only through a run command.
BornByRun ==
    \A r \in RunIds :
        (r \in DOMAIN runProcesses' /\ r \notin DOMAIN runProcesses) =>
            Processes([type |-> "run", run_id |-> r])

\* C28 as stated: finished equals the number of children polled as complete,
\* and no child polled as finished in a pass over the children is in the map
\* for the rest of the pass.
C28_FinishedCountsPolled ==
    trace.on =>
        /\ finished = trace.polled
        /\ pc = "poll" => trace.done \cap DOMAIN runProcesses = {}

\* The polls whose failure made is_flapping() true (at most one: the agent
\* stops).
FlapPolls == IF flapStopped THEN 1 ELSE 0

\* C28 as amended: a child enters the map only through a run command; a child
\* whose poll reports it finished is removed in that pass and counted in
\* finished, except the one whose failure trips the flapping check: the loop
\* is left before it is removed, it stays in the map and is not counted. So
\* finished equals the number of children polled as complete less that one.
C28_ChildLifecycle ==
    /\ [](trace.on =>
            /\ finished + FlapPolls = trace.polled
            /\ pc = "poll" =>
                  \/ trace.done \cap DOMAIN runProcesses = {}
                  \/ /\ flapStopped
                     /\ pollSet = {}
                     /\ Cardinality(trace.done \cap DOMAIN runProcesses) = 1)
    /\ [][BornByRun]_vars

\* C28 witness: two children were cleaned up, and the third, whose failure
\* tripped the flapping check, is still in the map.
C28_Witness ==
    /\ pc = "poll"
    /\ flapStopped
    /\ finished = 2
    /\ trace.polled = 3
    /\ trace.done \cap DOMAIN runProcesses # {}

\* ---- batches of more than one command ----

\* read_many_from_queue (line 182) returns up to 100 commands and the
\* heartbeat (line 227) a list of commands: the batches below hold up to
\* MaxBatch.
MaxBatch == 2

\* AgentApi.command while a command is waiting on the queue.
UserCommandMore ==
    /\ pc = "read"
    /\ Len(queue) >= MaxQueue
    /\ Len(queue) < MaxBatch
    /\ \E c \in Commands :
        /\ MayIssue(c)
        /\ queue' = Append(queue, c)
    /\ UNCHANGED <<now, function, count, disableFlapping, running, failed, finished,
                   runProcesses, spawned, batch, batchSrc, log, pc, pollSet,
                   runStatus, posExits, nonZeroExits, failsInWindow, flapStopped, trace>>
    /\ OnlyAgent

\* Lines 227-231: the heartbeat returns two commands.
HeartbeatMore ==
    /\ pc = "heartbeat"
    /\ IssuedCmds + 2 <= MaxCmds
    /\ \E c1, c2 \in Commands :
        /\ IssuedRuns + CountRuns(<<c1, c2>>) <= MaxProcs
        /\ batch' = <<c1, c2>>
    /\ batchSrc' = "server"
    /\ pc' = "cmds"
    /\ trace' = IF trace.on THEN [trace EXCEPT !.done = {}, !.atPoll = {}] ELSE trace
    /\ UNCHANGED <<now, function, count, disableFlapping, running, failed, finished,
                   runProcesses, spawned, queue, log, pollSet,
                   runStatus, posExits, nonZeroExits, failsInWindow, flapStopped>>
    /\ OnlyAgent

BatchNext ==
    \/ AgentNext
    \/ UserCommandMore
    \/ HeartbeatMore

\* C36: no spawn after stop. Once _running is false no child is spawned.
C36_NoSpawnAfterStop ==
    [][~running => spawned' = spawned]_vars

\* C37: no orphaned child. Every child spawned and not yet found finished by
\* a poll is in the map of children: the children spawned are those of the
\* map and those counted in finished.
C37_NoOrphan ==
    spawned = Cardinality(DOMAIN runProcesses) + finished

\* The thread of run() goes on: the read of the queue returns (after
\* POLL_INTERVAL at the latest), every command of a batch is processed, the
\* loop over the children and the heartbeat come to their end.
AgentFairness ==
    /\ WF_vars(ReadCommands)
    /\ WF_vars(ProcessCommand)
    /\ WF_vars(EndCommands)
    /\ WF_vars(PollChild)
    /\ WF_vars(CountCheck)
    /\ WF_vars(Heartbeat)
    /\ WF_vars(TerminateAll)
    /\ WF_vars(WaitAll)

\* C38: in-process trial completion. In function mode a child whose worker
\* process has ended is, while the agent runs, in the end polled as finished
\* and removed from the map (or the agent stops, or the run id is given to a
\* new child).
C38_InProcessCompletion ==
    \A r \in RunIds :
        (function /\ running /\ r \in DOMAIN runProcesses /\ ~runProcesses[r].alive)
            ~> (\/ r \notin DOMAIN runProcesses
                \/ ~running
                \/ runProcesses[r].alive)

\* C39: no heartbeat after the stop decision. When the loop over the children
\* is over and _running is false or finished has reached the count, the
\* iteration ends without a heartbeat and without a server command, _running
\* is false from then on, and no heartbeat is sent while _running is false.
C39_NoHeartbeatAfterStop ==
    /\ [](/\ pc = "heartbeat" => (running /\ (count = 0 \/ finished < count))
          /\ (pc = "cmds" /\ batchSrc = "server" /\ ~running) =>
                log > 0)
    /\ [][/\ (pc = "poll" /\ pc' # "poll"
                 /\ (~running \/ (count # 0 /\ finished >= count))) =>
                (pc' = "finally" /\ ~running' /\ batch' = batch /\ log' = log)
          /\ ~running => (~running' /\ pc' # "heartbeat")
          /\ (batchSrc' = "server" /\ batch' # batch /\ Len(batch') > Len(batch)) =>
                (running /\ pc = "heartbeat")
         ]_vars

\* C39 witness: the agent has left its loop because finished reached the
\* count.
C39_Witness ==
    /\ pc = "finally"
    /\ ~running
    /\ count # 0
    /\ finished >= count
    /\ ~flapStopped
    /\ batchSrc = "local"

\* C33 as stated: heartbeat map. The map sent with a heartbeat has an entry
\* for every child that was in the map of children when the poll step of the
\* iteration began.
C33_HeartbeatMapAll ==
    (trace.on /\ pc = "heartbeat") => trace.atPoll \subseteq runStatus

\* C33 as amended: the map sent with a heartbeat has an entry, with the value
\* true, for exactly the children of the map at the start of the poll step
\* whose poll returned no result; these are the children still in the map,
\* and a child whose poll reported it finished has no entry.
C33_HeartbeatMap ==
    (trace.on /\ pc = "heartbeat") =>
        /\ runStatus = trace.atPoll \ trace.done
        /\ runStatus = DOMAIN runProcesses
        /\ trace.done \cap runStatus = {}

\* C33 witness: a heartbeat is about to be sent after a pass in which one
\* child was found alive and another finished.
C33_Witness ==
    /\ trace.on
    /\ pc = "heartbeat"
    /\ runStatus # {}
    /\ trace.done # {}

(***************************************************************************)
(*                               TBHistory                                 *)
(***************************************************************************)

\* ---- bounds of the model ----
MaxAdds == 3
MaxFlushes == 2

\* "_step" is not a key of the dict.
NoStep == -1

\* The scalars a row can hold.
Tags == {"loss", "acc"}

EmptyDict == [keys |-> {}, step |-> NoStep]

\* "not self._data"
IsEmptyDict(d) == d.keys = {} /\ d.step = NoStep

\* The TBHistory object.
History == [heap |-> hHeap, step |-> hStep, data |-> hData, added |-> hAdded]

\* Mutant: _step is not incremented.
FlushKeepsStep(h) ==
    IF IsEmptyDict(h.heap[h.data]) THEN h
    ELSE [h EXCEPT !.heap[h.data].step = h.step,
                   !.added = Append(@, h.data)]

\* TBHistory._flush: the object in flight gets "_step" and is appended; it
\* stays the object in flight.
Flush(h) ==
    IF IsEmptyDict(h.heap[h.data]) THEN h
    ELSE [h EXCEPT !.heap[h.data].step = h.step,
                   !.added = Append(@, h.data),
                   !.step = @ + 1]

\* TBHistory.add: flush, then a new dict holding d is in flight.
Add(h, d) ==
    LET f == Flush(h) IN
    [f EXCEPT !.heap = Append(@, [keys |-> d, step |-> NoStep]),
              !.data = Len(f.heap) + 1]

\* TBHistory._row_update
RowUpdate(h, d) == [h EXCEPT !.heap[h.data].keys = @ \cup d]

\* The rows of TBHistory._get_and_reset, as they are when it returns.
Rows(h) == [i \in DOMAIN h.added |-> [id |-> h.added[i], step |-> h.heap[h.added[i]].step]]

SetHistory(h) ==
    /\ hHeap' = h.heap
    /\ hStep' = h.step
    /\ hData' = h.data
    /\ hAdded' = h.added

\* TBHistory.__init__
HistInit ==
    /\ hHeap = <<EmptyDict>>
    /\ hStep = 0
    /\ hData = 1
    /\ hAdded = <<>>
    /\ hReturned = <<>>
    /\ hDirect = FALSE
    /\ hReused = FALSE
    /\ hCalls = [add |-> 0, flush |-> 0]

HistAdd ==
    /\ OnlyHistory
    /\ hCalls.add < MaxAdds
    /\ \E d \in SUBSET Tags : SetHistory(Add(History, d))
    /\ hCalls' = [hCalls EXCEPT !.add = @ + 1]
    /\ hReused' = (hReused \/ hDirect)
    /\ hDirect' = FALSE
    /\ UNCHANGED hReturned

HistRowUpdate ==
    /\ OnlyHistory
    /\ \E d \in SUBSET Tags : SetHistory(RowUpdate(History, d))
    /\ UNCHANGED <<hReturned, hDirect, hReused, hCalls>>

\* A direct call of _flush(), as in line 304.
HistFlush ==
    /\ OnlyHistory
    /\ hCalls.flush < MaxFlushes
    /\ SetHistory(Flush(History))
    /\ hCalls' = [hCalls EXCEPT !.flush = @ + 1]
    /\ hReused' = (hReused \/ hDirect)
    /\ hDirect' = (hDirect \/ ~IsEmptyDict(hHeap[hData]))
    /\ UNCHANGED hReturned

HistGetAndReset ==
    /\ OnlyHistory
    /\ hAdded # <<>>
    /\ hReturned' = hReturned \o Rows(History)
    /\ hAdded' = <<>>
    /\ UNCHANGED <<hHeap, hStep, hData, hDirect, hReused, hCalls>>

HistNext ==
    \/ HistAdd
    \/ HistRowUpdate
    \/ HistFlush
    \/ HistGetAndReset

\* The rows returned so far carry the steps 0, 1, 2, ... and each is another
\* object; every object appended got its own step.
StepsContiguous ==
    /\ \A i \in DOMAIN hReturned : hReturned[i].step = i - 1
    /\ \A i, j \in DOMAIN hReturned : hReturned[i].id = hReturned[j].id => i = j
    /\ hStep = Len(hReturned) + Len(hAdded)

\* C7 as stated: for any sequence of add, _row_update, _flush and
\* _get_and_reset calls the returned rows carry the steps 0, 1, 2, ... with no
\* gap and no repeat, each row returned once.
C7_AnySequence == StepsContiguous

\* C7 as amended: the same, for the sequences of calls in which no add() or
\* _flush() follows a direct _flush() that appended the map in flight (the
\* consumer's only direct _flush() is its last call before the last
\* _get_and_reset).
C7_StepMonotonicity == ~hReused => StepsContiguous

\* C7 witness: three rows were returned, the last one appended by a direct _flush().
C7_Witness ==
    /\ ~hReused
    /\ hDirect
    /\ Len(hReturned) = 3
    /\ hReturned[3].id = hData

(***************************************************************************)
(*                     TFEVENTS WATCHER AND CONSUMER                       *)
(***************************************************************************)

\* ---- program constants ----
\* TBEventConsumer.__init__(..., delay=10)
CONSUMER_DELAY == 10

\* ---- bounds of the model ----
TbClockStep == 5
TbMaxTime == 15
MaxEvents == 3
MaxWallTime == 2

WallTimes == 1..MaxWallTime

\* event = None
NoEvent == [id |-> 0, wall_time |-> 0, warm |-> FALSE]

\* Event.__lt__: the order of the priority queue.
EventLt(a, b) == a.wall_time < b.wall_time

\* queue.PriorityQueue.get: an event no other event of the queue is less than.
QueueHeads(q) == {e \in q : \A o \in q : ~EventLt(o, e)}

\* Mutant: no warm-up window.
InWarmUpNever(t) == FALSE

\* Line 290: the consumer is in its warm-up window at time t.
InWarmUp(t) == t < cStartTime + cDelay /\ ~cShutdown

\* tb_history = TBHistory() of the consumer's thread; no row saved, no
\* direct _flush() yet, no event put back yet.
NoRows ==
    [h |-> [heap |-> <<EmptyDict>>, step |-> 0, data |-> 1, added |-> <<>>],
     saved |-> <<>>, flushes |-> 0, requeued |-> FALSE]

\* A TBDirWatcher whose thread is about to call Load(): _shutdown and
\* shutdown_time are None.
NoWatcher ==
    [pc |-> "load", shutdown |-> FALSE, shutdown_time |-> NoTime, reason |-> "none",
     finishing |-> FALSE, joined |-> FALSE, seen |-> NoTime, late |-> 0]

\* is_tfevents_file_created_by was not called.
NoCheck ==
    [path |-> <<>>, hostname |-> <<>>, start_time |-> 0, parts |-> <<>>,
     result |-> "none"]

\* TBWatcher.__init__: no logdir, no consumer; add() was not called.
NoWatchers ==
    [logdirs |-> <<>>, consumer |-> FALSE, consumers |-> <<>>,
     call |-> [logdir |-> 0, save |-> FALSE, known |-> FALSE]]

TBInit ==
    /\ cHist = NoRows
    /\ dw = NoWatcher
    /\ tfCheck = NoCheck
    /\ tbw = NoWatchers
    /\ tbNow = 0
    /\ tbQueue = {}
    /\ nput = 0
    /\ watchersDone = FALSE
    /\ cStartTime = 0
    /\ cDelay = CONSUMER_DELAY
    /\ cShutdown = FALSE
    /\ cpc = "get"
    /\ cEvent = NoEvent
    /\ handled = <<>>

TbTick ==
    /\ OnlyTB
    /\ tbNow + TbClockStep <= TbMaxTime
    /\ tbNow' = tbNow + TbClockStep
    /\ UNCHANGED <<tbQueue, nput, watchersDone, cStartTime, cDelay, cShutdown,
                   cpc, cEvent, handled, cHist, dw, tfCheck, tbw>>

\* TBDirWatcher.process_event: a directory watcher puts a summary event. The
\* event records whether it was put inside the consumer's warm-up window.
WatcherPut ==
    /\ OnlyTB
    /\ ~watchersDone
    /\ nput < MaxEvents
    /\ \E w \in WallTimes :
        tbQueue' = tbQueue \cup
            {[id |-> nput + 1, wall_time |-> w, warm |-> tbNow < cStartTime + cDelay]}
    /\ nput' = nput + 1
    /\ UNCHANGED <<tbNow, watchersDone, cStartTime, cDelay, cShutdown,
                   cpc, cEvent, handled, cHist, dw, tfCheck, tbw>>

\* TBWatcher.finish, lines 129-132: every directory watcher has ended.
WatchersFinish ==
    /\ OnlyTB
    /\ ~watchersDone
    /\ watchersDone' = TRUE
    /\ UNCHANGED <<tbNow, tbQueue, nput, cStartTime, cDelay, cShutdown,
                   cpc, cEvent, handled, cHist, dw, tfCheck, tbw>>

\* wandb.tensorboard.log(event, history=tb_history): the translator puts the
\* scalars of the event in a new row of the history, which flushes the row
\* before it.
Translate(h, event) == Add(h, {"loss"})

\* "items = tb_history._get_and_reset(); for item in items: self._save_row(item)"
\* on the history h; direct: a direct _flush() came before it.
SaveRows(h, direct) ==
    [h |-> [h EXCEPT !.added = <<>>],
     saved |-> cHist.saved \o Rows(h),
     flushes |-> IF direct THEN cHist.flushes + 1 ELSE cHist.flushes,
     requeued |-> cHist.requeued]

\* TBEventConsumer.finish, lines 280-281.
ConsumerFinish ==
    /\ OnlyTB
    /\ watchersDone
    /\ ~cShutdown
    /\ cDelay' = 0
    /\ cShutdown' = TRUE
    /\ UNCHANGED <<tbNow, tbQueue, nput, watchersDone, cStartTime,
                   cpc, cEvent, handled, cHist, dw, tfCheck, tbw>>

\* Line 288: the get returns an event.
ConsumerGet ==
    /\ OnlyTB
    /\ cpc = "get"
    /\ \E e \in QueueHeads(tbQueue) :
        /\ cEvent' = e
        /\ tbQueue' = tbQueue \ {e}
    /\ cpc' = "check"
    /\ UNCHANGED <<tbNow, nput, watchersDone, cStartTime, cDelay, cShutdown, handled,
                   cHist, dw, tfCheck, tbw>>

\* Mutant: the consumer leaves its loop as soon as it is shut down.
ConsumerGetEmptyEarly ==
    /\ OnlyTB
    /\ cpc = "get"
    /\ cShutdown
    /\ cpc' = "flush"
    /\ UNCHANGED <<tbNow, tbQueue, nput, watchersDone, cStartTime, cDelay,
                   cShutdown, cEvent, handled, cHist, dw, tfCheck, tbw>>

\* Lines 294-297: the get timed out on an empty queue and the consumer is shut down.
ConsumerGetEmpty ==
    /\ OnlyTB
    /\ cpc = "get"
    /\ tbQueue = {}
    /\ cShutdown
    /\ cpc' = "flush"
    /\ UNCHANGED <<tbNow, tbQueue, nput, watchersDone, cStartTime, cDelay,
                   cShutdown, cEvent, handled, cHist, dw, tfCheck, tbw>>

\* Mutant: inside the warm-up window the event is dropped.
ConsumerCheckDrop ==
    /\ OnlyTB
    /\ cpc = "check"
    /\ IF InWarmUp(tbNow)
       THEN /\ cEvent' = NoEvent
            /\ cpc' = "get"
            /\ cHist' = [cHist EXCEPT !.requeued = TRUE]
            /\ UNCHANGED tbQueue
       ELSE /\ cpc' = "handle"
            /\ UNCHANGED <<tbQueue, cEvent, cHist>>
    /\ UNCHANGED <<tbNow, nput, watchersDone, cStartTime, cDelay, cShutdown, handled,
                   dw, tfCheck, tbw>>

\* Lines 290-293: inside the warm-up window the event is put back.
ConsumerCheck ==
    /\ OnlyTB
    /\ cpc = "check"
    /\ IF InWarmUp(tbNow)
       THEN /\ tbQueue' = tbQueue \cup {cEvent}
            /\ cEvent' = NoEvent
            /\ cpc' = "get"
            /\ cHist' = [cHist EXCEPT !.requeued = TRUE]
       ELSE /\ cpc' = "handle"
            /\ UNCHANGED <<tbQueue, cEvent, cHist>>
    /\ UNCHANGED <<tbNow, nput, watchersDone, cStartTime, cDelay, cShutdown, handled,
                   dw, tfCheck, tbw>>

\* Lines 298-302: the event is handled and its rows are saved.
ConsumerHandle ==
    /\ OnlyTB
    /\ cpc = "handle"
    /\ handled' = Append(handled, cEvent)
    /\ cEvent' = NoEvent
    /\ cpc' = "get"
    /\ cHist' = SaveRows(Translate(cHist.h, cEvent), FALSE)
    /\ UNCHANGED <<tbNow, tbQueue, nput, watchersDone, cStartTime, cDelay, cShutdown,
                   dw, tfCheck, tbw>>

\* Lines 303-307: the last flush.
ConsumerFlush ==
    /\ OnlyTB
    /\ cpc = "flush"
    /\ cpc' = "done"
    /\ cHist' = SaveRows(Flush(cHist.h), TRUE)
    /\ UNCHANGED <<tbNow, tbQueue, nput, watchersDone, cStartTime, cDelay,
                   cShutdown, cEvent, handled, dw, tfCheck, tbw>>

TBNext ==
    \/ TbTick
    \/ WatcherPut
    \/ WatchersFinish
    \/ ConsumerFinish
    \/ ConsumerGet
    \/ ConsumerGetEmpty
    \/ ConsumerCheck
    \/ ConsumerHandle
    \/ ConsumerFlush

\* C6: event ordering. The events put while the consumer was inside its warm-up
\* window are handled in non-decreasing wall_time order.
C6_EventOrdering ==
    \A i, j \in DOMAIN handled :
        (i < j /\ handled[i].warm /\ handled[j].warm) =>
            handled[i].wall_time <= handled[j].wall_time

C31_WarmUp ==
    /\ [](/\ (tbNow < cStartTime + CONSUMER_DELAY /\ ~cShutdown) =>
                (handled = <<>> /\ cHist.saved = <<>> /\ cpc \in {"get", "check"})
          /\ cpc = "handle" => cEvent # NoEvent)
    /\ [][(cpc = "check" /\ cpc' # "check"
               /\ tbNow < cStartTime + cDelay /\ ~cShutdown) =>
             /\ tbQueue' = tbQueue \cup {cEvent}
             /\ cEvent \in tbQueue'
             /\ cpc' = "get"
             /\ handled' = handled
             /\ cHist'.h = cHist.h
             /\ cHist'.saved = cHist.saved
         ]_vars

\* C31 witness: an event that was put inside the window has been handled after
\* it, with no shutdown.
C31_Witness ==
    /\ ~cShutdown
    /\ tbNow >= cStartTime + CONSUMER_DELAY
    /\ \E i \in DOMAIN handled : handled[i].warm
    /\ cHist.saved # <<>>

\* The places an event can be in: on the queue, in the hands of the consumer,
\* or handled.
CopiesOf(n) ==
    Cardinality({e \in tbQueue : e.id = n})
      + (IF cEvent.id = n THEN 1 ELSE 0)
      + Cardinality({i \in DOMAIN handled : handled[i].id = n})

MaxEntries == 3

\* Strings are sequences of code points.
\* "wandb-artifact-manifest-v1\n"
ManifestHeader ==
    <<119, 97, 110, 100, 98, 45, 97, 114, 116, 105, 102, 97, 99, 116, 45,
      109, 97, 110, 105, 102, 101, 115, 116, 45, 118, 49, 10>>

\* The paths "a", "B", "a/b" and "a.b", and the digests "x" and "y".
ManifestPaths == {<<97>>, <<66>>, <<97, 47, 98>>, <<97, 46, 98>>}
EntryDigests == {<<120>>, <<121>>}

\* Python's < on str: by code point, a proper prefix first.
StrLt(a, b) ==
    \E k \in 1..(Len(a) + 1) :
        /\ k <= Len(b)
        /\ \A i \in 1..(k - 1) : a[i] = b[i]
        /\ (k = Len(a) + 1 \/ a[k] < b[k])

RemoveAt(seq, i) == SubSeq(seq, 1, i - 1) \o SubSeq(seq, i + 1, Len(seq))

\* Mutant: the items are hashed in insertion order.
SortedItemsInsertionOrder(items) == items

\* sorted(self.entries.items(), key=lambda kv: kv[0]): ascending keys, the
\* earlier item first among equal keys.
RECURSIVE SortedItems(_)
SortedItems(items) ==
    IF items = <<>> THEN <<>>
    ELSE LET i == CHOOSE i \in DOMAIN items :
                      \A j \in DOMAIN items :
                          /\ ~StrLt(items[j].path, items[i].path)
                          /\ (items[j].path = items[i].path => i <= j)
         IN <<items[i]>> \o SortedItems(RemoveAt(items, i))

\* "{}:{}\n".format(name, entry.digest)
DigestLine(e) == e.path \o <<58>> \o e.digest \o <<10>>

RECURSIVE HashLines(_)
HashLines(items) ==
    IF items = <<>> THEN <<>>
    ELSE DigestLine(Head(items)) \o HashLines(Tail(items))

\* ArtifactManifestV1.digest: the bytes the hasher is fed; the MD5 hex of
\* equal bytes is equal.
Digest(es) == ManifestHeader \o HashLines(SortedItems(es))

EntrySet(es) == {es[i] : i \in DOMAIN es}
EntryPaths(es) == {es[i].path : i \in DOMAIN es}

ManifestInit ==
    /\ entriesA = <<>>
    /\ entriesB = <<>>

\* An entry under a new path is added to the first manifest.
AddEntryA ==
    /\ OnlyManifest
    /\ Len(entriesA) < MaxEntries
    /\ \E p \in ManifestPaths \ EntryPaths(entriesA), d \in EntryDigests :
           entriesA' = Append(entriesA, [path |-> p, digest |-> d])
    /\ UNCHANGED entriesB

\* The second manifest gets one of the first one's entries, in any order.
AddEntryB ==
    /\ OnlyManifest
    /\ \E e \in EntrySet(entriesA) \ EntrySet(entriesB) :
           entriesB' = Append(entriesB, e)
    /\ UNCHANGED entriesA

ManifestNext ==
    \/ AddEntryA
    \/ AddEntryB

\* C8: the digest is taken over the header followed by one "path:digest" line
\* per entry in ascending path order, and two manifests holding the same set of
\* entries have the same digest whatever the insertion orders were.
C8_ManifestDeterminism ==
    /\ \A i, j \in DOMAIN entriesA :
           i < j => StrLt(SortedItems(entriesA)[i].path, SortedItems(entriesA)[j].path)
    /\ EntrySet(SortedItems(entriesA)) = EntrySet(entriesA)
    /\ Len(Digest(entriesA)) = Len(ManifestHeader) + Len(HashLines(entriesA))
    /\ SubSeq(Digest(entriesA), 1, Len(ManifestHeader)) = ManifestHeader
    /\ EntrySet(entriesA) = EntrySet(entriesB) => Digest(entriesA) = Digest(entriesB)

\* C8 witness: the same three entries, inserted in two orders of which
\* neither is the ascending one.
C8_Witness ==
    /\ Len(entriesA) = 3
    /\ EntrySet(entriesA) = EntrySet(entriesB)
    /\ entriesA # entriesB
    /\ entriesA # SortedItems(entriesA)
    /\ entriesB # SortedItems(entriesB)

(***************************************************************************)
(*                            ArtifactsCache                               *)
(***************************************************************************)

\* ---- bounds of the model ----
MaxSize == 2
MaxWrites == 2

\* size=None of a manifest entry.
NoSize == -1

\* The b64 MD5 keys "AAAB" and "AQAA" (three bytes instead of sixteen) and
\* the etag "abc".
Md5Keys == {<<65, 65, 65, 66>>, <<65, 81, 65, 65>>}
Etags == {<<97, 98, 99>>}

FileSizes == 0..MaxSize
EntrySizes == FileSizes \cup {NoSize}

\* The value of a base64 character.
B64Value(c) ==
    IF c >= 65 /\ c <= 90 THEN c - 65
    ELSE IF c >= 97 /\ c <= 122 THEN c - 71
    ELSE IF c >= 48 /\ c <= 57 THEN c + 4
    ELSE IF c = 43 THEN 62
    ELSE 63

\* base64.b64decode of one group of four characters: three bytes.
B64Decode(b64) ==
    LET v == [i \in 1..4 |-> B64Value(b64[i])] IN
    << v[1] * 4 + v[2] \div 16,
       (v[2] % 16) * 16 + v[3] \div 4,
       (v[3] % 4) * 64 + v[4] >>

HexDigit(n) == IF n < 10 THEN 48 + n ELSE 87 + n

\* util.bytes_to_hex
RECURSIVE BytesToHex(_)
BytesToHex(bytes) ==
    IF bytes = <<>> THEN <<>>
    ELSE <<HexDigit(Head(bytes) \div 16), HexDigit(Head(bytes) % 16)>>
             \o BytesToHex(Tail(bytes))

\* Paths are relative to <cache_dir>/obj.
Md5ObjPath(b64_md5) ==
    LET hex_md5 == BytesToHex(B64Decode(b64_md5)) IN
    <<"md5", SubSeq(hex_md5, 1, 2), SubSeq(hex_md5, 3, Len(hex_md5))>>

EtagObjPath(etag) == <<"etag", SubSeq(etag, 1, 2), SubSeq(etag, 3, Len(etag))>>

\* os.path.dirname
Dirname(path) == SubSeq(path, 1, Len(path) - 1)

\* Mutant: the byte length is not compared.
CheckObjPathAnySize(path, size, files, dirs) ==
    IF path \in DOMAIN files
    THEN [path |-> path, hit |-> TRUE, files |-> files, dirs |-> dirs]
    ELSE [path |-> path, hit |-> FALSE, files |-> files, dirs |-> dirs \cup {Dirname(path)}]

\* The body the two lookups share: the result and the file system it leaves.
CheckObjPath(path, size, files, dirs) ==
    IF path \in DOMAIN files /\ files[path] = size
    THEN [path |-> path, hit |-> TRUE, files |-> files, dirs |-> dirs]
    ELSE [path |-> path, hit |-> FALSE, files |-> files, dirs |-> dirs \cup {Dirname(path)}]

\* Mutant: a file at the path is a hit whatever its length.
CheckMd5ObjPathIsFile(b64_md5, size, files, dirs) ==
    LET path == Md5ObjPath(b64_md5) IN
    IF path \in DOMAIN files
    THEN [path |-> path, hit |-> TRUE, files |-> files, dirs |-> dirs]
    ELSE [path |-> path, hit |-> FALSE, files |-> files, dirs |-> dirs \cup {Dirname(path)}]

CheckMd5ObjPath(b64_md5, size, files, dirs) ==
    CheckObjPath(Md5ObjPath(b64_md5), size, files, dirs)

CheckEtagObjPath(etag, size, files, dirs) ==
    CheckObjPath(EtagObjPath(etag), size, files, dirs)

\* Mutant: the file is opened for appending.
WriteFileAppend(files, path, n) ==
    [q \in DOMAIN files \cup {path} |->
        IF q # path THEN files[q]
        ELSE IF path \in DOMAIN files THEN files[path] + n ELSE n]

\* open(path, "wb") and shutil.copyfile: the file holds the n bytes written.
WriteFile(files, path, n) ==
    [q \in DOMAIN files \cup {path} |-> IF q = path THEN n ELSE files[q]]

NoLookup ==
    [kind |-> "none", key |-> <<>>, size |-> NoSize, path |-> <<>>, hit |-> FALSE,
     lastWritten |-> NoSize, wasWritten |-> FALSE]

\* ArtifactsCache.__init__ on an empty cache directory.
CacheInit ==
    /\ cacheFiles = <<>>
    /\ cacheDirs = {}
    /\ lastLookup = NoLookup
    /\ firstPath = <<>>
    /\ lastWrite = <<>>
    /\ everWritten = {}
    /\ writes = 0

\* The history of a lookup of key for size with result r.
RecordLookup(kind, key, size, r) ==
    /\ lastLookup' =
           [kind |-> kind, key |-> key, size |-> size, path |-> r.path, hit |-> r.hit,
            lastWritten |-> IF r.path \in DOMAIN lastWrite THEN lastWrite[r.path] ELSE NoSize,
            wasWritten |-> <<r.path, size>> \in everWritten]
    /\ firstPath' =
           IF <<kind, key>> \in DOMAIN firstPath THEN firstPath
           ELSE [k \in DOMAIN firstPath \cup {<<kind, key>>} |->
                    IF k = <<kind, key>> THEN r.path ELSE firstPath[k]]

\* A caller that writes the bytes of its source at the path after a miss: any
\* number of them, as the response body or the local file has now.
LookupThenWrite(kind, key, size, r) ==
    /\ r.hit \/ writes < MaxWrites
    /\ RecordLookup(kind, key, size, r)
    /\ cacheDirs' = r.dirs
    /\ IF r.hit
       THEN /\ cacheFiles' = r.files
            /\ UNCHANGED <<lastWrite, everWritten, writes>>
       ELSE \E n \in FileSizes :
            /\ cacheFiles' = WriteFile(r.files, r.path, n)
            /\ lastWrite' = [q \in DOMAIN lastWrite \cup {r.path} |->
                                IF q = r.path THEN n ELSE lastWrite[q]]
            /\ everWritten' = everWritten \cup {<<r.path, n>>}
            /\ writes' = writes + 1

\* A caller that raises after the lookup (a digest mismatch, a failed
\* request): LocalFileHandler.load_path, S3Handler.load_path.
LookupMd5 ==
    /\ OnlyCache
    /\ \E k \in Md5Keys, s \in EntrySizes :
           LET r == CheckMd5ObjPath(k, s, cacheFiles, cacheDirs) IN
           /\ RecordLookup("md5", k, s, r)
           /\ cacheFiles' = r.files
           /\ cacheDirs' = r.dirs
    /\ UNCHANGED <<lastWrite, everWritten, writes>>

LookupEtag ==
    /\ OnlyCache
    /\ \E k \in Etags, s \in EntrySizes :
           LET r == CheckEtagObjPath(k, s, cacheFiles, cacheDirs) IN
           /\ RecordLookup("etag", k, s, r)
           /\ cacheFiles' = r.files
           /\ cacheDirs' = r.dirs
    /\ UNCHANGED <<lastWrite, everWritten, writes>>

\* WandbStoragePolicy.load_file: on a miss the response body, n bytes of it,
\* is written at the path.
LoadFile ==
    /\ OnlyCache
    /\ \E k \in Md5Keys, s \in EntrySizes :
           LookupThenWrite("md5", k, s, CheckMd5ObjPath(k, s, cacheFiles, cacheDirs))

\* WandbStoragePolicy.store_file: on a miss the local file, of n bytes now, is
\* copied to the path.
StoreFile ==
    /\ OnlyCache
    /\ \E k \in Md5Keys, s \in FileSizes :
           LookupThenWrite("md5", k, s, CheckMd5ObjPath(k, s, cacheFiles, cacheDirs))

\* HTTPHandler.load_path with local=True.
LoadPath ==
    /\ OnlyCache
    /\ \E k \in Etags, s \in EntrySizes :
           LookupThenWrite("etag", k, s, CheckEtagObjPath(k, s, cacheFiles, cacheDirs))

CacheNext ==
    \/ LookupMd5
    \/ LookupEtag
    \/ LoadFile
    \/ StoreFile
    \/ LoadPath

\* What a lookup of path for size must return in the current file system.
HitCondition(r, path, size) ==
    /\ r.path = path
    /\ r.hit <=> (path \in DOMAIN cacheFiles /\ cacheFiles[path] = size)
    /\ r.files = cacheFiles
    /\ r.hit => r.dirs = cacheDirs
    /\ ~r.hit => r.dirs = cacheDirs \cup {Dirname(path)}

\* C9: in every file system the cache reaches, for every key and size, a
\* lookup returns (path, true) iff a file is at the content-addressed path
\* and its length is size; otherwise it returns (path, false) and the parent
\* directory exists; it creates, changes and deletes no file.
C9_CacheHitCondition ==
    /\ \A k \in Md5Keys, s \in EntrySizes :
           HitCondition(CheckMd5ObjPath(k, s, cacheFiles, cacheDirs), Md5ObjPath(k), s)
    /\ \A k \in Etags, s \in EntrySizes :
           HitCondition(CheckEtagObjPath(k, s, cacheFiles, cacheDirs), EtagObjPath(k), s)
    /\ lastLookup.kind # "none" =>
           /\ ~lastLookup.hit => Dirname(lastLookup.path) \in cacheDirs
           /\ lastLookup.hit => lastLookup.lastWritten = lastLookup.size

\* C9 witness: an etag lookup missed on a file of another length, and an md5
\* file of some length is in the cache.
C9_Witness ==
    /\ lastLookup.kind = "etag"
    /\ ~lastLookup.hit
    /\ lastLookup.size # NoSize
    /\ lastLookup.path \in DOMAIN cacheFiles
    /\ cacheFiles[lastLookup.path] # lastLookup.size
    /\ \E k \in Md5Keys : Md5ObjPath(k) \in DOMAIN cacheFiles

\* Every lookup of a key returned the path its first lookup returned, which
\* is the path of the key.
PathStable ==
    lastLookup.kind # "none" =>
        /\ lastLookup.path = firstPath[<<lastLookup.kind, lastLookup.key>>]
        /\ lastLookup.path = IF lastLookup.kind = "md5" THEN Md5ObjPath(lastLookup.key)
                             ELSE EtagObjPath(lastLookup.key)

\* C10 as stated: the path is stable, and once size bytes were written at
\* the path every later lookup of (digest, size) hits.
C10_HitAfterAnyWrite ==
    /\ PathStable
    /\ lastLookup.wasWritten => lastLookup.hit

\* C10 as amended: the path is stable, and a lookup of (digest, size) hits
\* when the last write at the path wrote size bytes; a caller whose lookup
\* missed writes the file again, with another length if its source has one.
C10_AddressStability ==
    /\ PathStable
    /\ (lastLookup.size # NoSize /\ lastLookup.lastWritten = lastLookup.size) => lastLookup.hit

\* C10 witness: the file was written twice and the lookup after the second
\* write hits with the length of that write.
C10_Witness ==
    /\ lastLookup.hit
    /\ Cardinality({w \in everWritten : w[1] = lastLookup.path}) = 2
    /\ lastLookup.path = firstPath[<<lastLookup.kind, lastLookup.key>>]

\* The path of the last lookup holds a file of another length than asked for.
OtherLength(l, files) ==
    l.path \in DOMAIN files /\ files[l.path] # l.size

\* The step is load_file (md5) or HTTPHandler.load_path (etag) for the key
\* and size that the lookup history l names.
LoadOf(l) ==
    /\ OnlyCache
    /\ l.kind # "none"
    /\ LookupThenWrite(l.kind, l.key, l.size,
                       IF l.kind = "md5"
                       THEN CheckMd5ObjPath(l.key, l.size, cacheFiles, cacheDirs)
                       ELSE CheckEtagObjPath(l.key, l.size, cacheFiles, cacheDirs))

\* C35: a download that left fewer bytes than entry.size at the cache path
\* does not poison the cache: no lookup, of either kind, hits on a file whose
\* length differs from the size asked for; a lookup of (digest, size) after a
\* last write of fewer bytes at the path misses; and load_file and
\* HTTPHandler.load_path, when their lookup misses, write the file at that
\* path again, so that it holds the bytes of the new download and nothing of
\* the old one.
C35_PartialWrites ==
    /\ [](/\ \A k \in Md5Keys, s \in EntrySizes :
                  LET r == CheckMd5ObjPath(k, s, cacheFiles, cacheDirs) IN
                  OtherLength([path |-> r.path, size |-> s], cacheFiles) => ~r.hit
          /\ \A k \in Etags, s \in EntrySizes :
                  LET r == CheckEtagObjPath(k, s, cacheFiles, cacheDirs) IN
                  OtherLength([path |-> r.path, size |-> s], cacheFiles) => ~r.hit
          /\ (/\ lastLookup.kind # "none"
              /\ lastLookup.size # NoSize
              /\ lastLookup.lastWritten # NoSize
              /\ lastLookup.lastWritten < lastLookup.size) => ~lastLookup.hit)
    /\ [][/\ (lastLookup'.kind # "none" /\ OtherLength(lastLookup', cacheFiles)) =>
                ~lastLookup'.hit
          /\ (~lastLookup'.hit /\ LoadOf(lastLookup')) =>
                /\ writes' = writes + 1
                /\ lastLookup'.path \in DOMAIN cacheFiles'
                /\ cacheFiles'[lastLookup'.path] = lastWrite'[lastLookup'.path]
                /\ \A q \in DOMAIN cacheFiles : q # lastLookup'.path => cacheFiles'[q] = cacheFiles[q]
          /\ (lastLookup'.hit /\ LoadOf(lastLookup')) =>
                /\ cacheFiles' = cacheFiles
                /\ cacheFiles[lastLookup'.path] = lastLookup'.size]_vars

\* C35 witness: load_file looked up (digest, size) when the last write at the
\* path had left fewer bytes, missed, and the file now holds size bytes.
C35_Witness ==
    /\ lastLookup.kind = "md5"
    /\ ~lastLookup.hit
    /\ lastLookup.size # NoSize
    /\ lastLookup.lastWritten # NoSize
    /\ lastLookup.lastWritten < lastLookup.size
    /\ lastLookup.path \in DOMAIN cacheFiles
    /\ cacheFiles[lastLookup.path] = lastLookup.size
    /\ writes = 2

(***************************************************************************)
(*                                Artifact                                 *)
(***************************************************************************)

\* A location is a directory root ("stage": Artifact._artifact_dir, "tmp": its
\* parent, "ext": a directory of the user, "cache": <cache_dir>/obj/md5) and
\* the components below it; "none" is local_path=None.
StageDir == [root |-> "stage", rel |-> <<>>]
NoPath == [root |-> "none", rel |-> <<>>]

\* ref=None and name=None.
NoRef == <<>>
NoName == <<0>>

\* The names "a", "/a", "b" and "../a" given to new_file.
NewFileNames == {<<97>>, <<47, 97>>, <<98>>, <<46, 46, 47, 97>>}

\* The file "x" of the user, its content, and the names "x" and "d" it is
\* added under.
ExtFile == [root |-> "ext", rel |-> << <<120>> >>]
ExtDir == [root |-> "ext", rel |-> <<>>]
AddFileName == <<120>>
AddDirName == <<100>>

\* ---- URIs ----

\* The index of the first c in str, or 0.
IndexOf(str, c) ==
    IF \E i \in DOMAIN str : str[i] = c
    THEN CHOOSE i \in DOMAIN str : str[i] = c /\ \A j \in 1..(i - 1) : str[j] # c
    ELSE 0

\* urlparse(uri).scheme: the letters before the first ":", when no "/" comes
\* before it; "" otherwise.
UrlScheme(uri) ==
    LET i == IndexOf(uri, 58) IN
    IF i > 1 /\ \A j \in 1..(i - 1) : uri[j] # 47 THEN SubSeq(uri, 1, i - 1) ELSE <<>>

\* urlparse(uri).path: what follows the scheme and, after "//", the netloc.
UrlPath(uri) ==
    LET sch == UrlScheme(uri)
        rest == IF sch = <<>> THEN uri ELSE SubSeq(uri, Len(sch) + 2, Len(uri))
    IN IF Len(rest) >= 2 /\ rest[1] = 47 /\ rest[2] = 47
       THEN LET after == SubSeq(rest, 3, Len(rest))
                k == IndexOf(after, 47)
            IN IF k = 0 THEN <<>> ELSE SubSeq(after, k, Len(after))
       ELSE rest

\* ---- TrackingHandler ----

\* Mutant: the name is always taken from the URI.
TrackingEntryNameFromUri(name, path) ==
    IF UrlPath(path) = <<>> THEN <<>> ELSE Tail(UrlPath(path))

\* "name = name or url.path[1:]"
TrackingEntryName(name, path) ==
    IF name # <<>> THEN name
    ELSE IF UrlPath(path) = <<>> THEN <<>> ELSE Tail(UrlPath(path))

\* TrackingHandler.store_path: the error raised or the entries returned, and
\* whether anything was read.
TrackingStorePath(path, name) ==
    IF name = NoName
    THEN [error |-> "name_required", entries |-> <<>>, read |-> FALSE]
    ELSE [error |-> "none",
          entries |-> << [path |-> TrackingEntryName(name, path), digest |-> path,
                          size |-> NoSize, ref |-> path, local_path |-> NoPath] >>,
          read |-> FALSE]

\* TrackingHandler.load_path
TrackingLoadPath(entry, local) ==
    IF local THEN [error |-> "not_recognized", value |-> <<>>]
    ELSE [error |-> "none", value |-> entry.path]

\* What a handle can write: a content is known by its length.
Contents == {1}

\* util.md5_file_b64 of a file with content c: "AAAA" for the empty file,
\* "AAAB" otherwise.
Md5FileB64(c) == IF c = 0 THEN <<65, 65, 65, 65>> ELSE <<65, 65, 65, 66>>

\* os.path.getsize of a file with content c.
GetSize(c) == c

\* name.lstrip("/")
RECURSIVE LStripSlash(_)
LStripSlash(name) ==
    IF name # <<>> /\ Head(name) = 47 THEN LStripSlash(Tail(name)) ELSE name

\* The components of a path string, split at "/".
RECURSIVE SplitPath(_, _)
SplitPath(str, cur) ==
    IF str = <<>> THEN <<cur>>
    ELSE IF Head(str) = 47 THEN <<cur>> \o SplitPath(Tail(str), <<>>)
    ELSE SplitPath(Tail(str), Append(cur, Head(str)))

\* The file a path below loc names: "" and "." stay, ".." goes up.
RECURSIVE WalkPath(_, _)
WalkPath(loc, comps) ==
    IF comps = <<>> THEN loc
    ELSE LET c == Head(comps) IN
         IF c = <<>> \/ c = <<46>> THEN WalkPath(loc, Tail(comps))
         ELSE IF c = <<46, 46>>
              THEN IF loc.rel # <<>>
                   THEN WalkPath([loc EXCEPT !.rel = SubSeq(@, 1, Len(@) - 1)], Tail(comps))
                   ELSE IF loc.root = "stage"
                        THEN WalkPath([root |-> "tmp", rel |-> <<>>], Tail(comps))
                        ELSE WalkPath(loc, Tail(comps))
              ELSE WalkPath([loc EXCEPT !.rel = Append(@, c)], Tail(comps))

\* os.path.join(self._artifact_dir.name, name.lstrip("/")), as the file system
\* resolves it.
NewFilePath(name) == WalkPath(StageDir, SplitPath(LStripSlash(name), <<>>))

\* os.path.exists
Exists(loc, files) == loc.rel = <<>> \/ loc \in DOMAIN files

\* os.path.relpath of a file below a directory, and os.path.join(name, it).
RECURSIVE JoinPath(_)
JoinPath(comps) ==
    IF comps = <<>> THEN <<>>
    ELSE IF Len(comps) = 1 THEN comps[1]
    ELSE comps[1] \o <<47>> \o JoinPath(Tail(comps))

\* The files os.walk finds below a directory.
FilesBelow(dir, files) ==
    {f \in DOMAIN files : f.root = dir.root /\ Len(f.rel) > Len(dir.rel)
                          /\ SubSeq(f.rel, 1, Len(dir.rel)) = dir.rel}

\* The enumerations of a finite set: the orders in which the pool's threads
\* can add the entries.
Orders(S) ==
    {o \in [1..Cardinality(S) -> S] : \A i, j \in 1..Cardinality(S) : o[i] = o[j] => i = j}

\* Mutant: the name given to add_dir is left out of the path.
DirEntryNoPrefix(dir, prefix, f, files) ==
    LET rel == SubSeq(f.rel, Len(dir.rel) + 1, Len(f.rel)) IN
    [path |-> JoinPath(rel),
     digest |-> Md5FileB64(files[f]),
     size |-> GetSize(files[f]),
     ref |-> NoRef,
     local_path |-> f]

\* add_manifest_file: the entry of a file found by add_dir.
DirEntry(dir, prefix, f, files) ==
    LET rel == SubSeq(f.rel, Len(dir.rel) + 1, Len(f.rel)) IN
    [path |-> JoinPath(prefix \o rel),
     digest |-> Md5FileB64(files[f]),
     size |-> GetSize(files[f]),
     ref |-> NoRef,
     local_path |-> f]

\* Artifact.add_dir past its checks: the entries, added in the order given.
AddDirEntries(es, dir, prefix, order, files) ==
    es \o [i \in DOMAIN order |-> DirEntry(dir, prefix, order[i], files)]

\* The cache location of an md5 key.
CacheLoc(path) == [root |-> "cache", rel |-> Tail(path)]

\* remap_entry for the entries from the i-th on: the entries and the cache
\* it leaves.
RECURSIVE RemapEntries(_, _, _, _, _)
RemapEntries(es, i, files, cfiles, cdirs) ==
    IF i > Len(es) THEN [entries |-> es, files |-> cfiles, dirs |-> cdirs]
    ELSE IF es[i].local_path.root # "stage"
         THEN RemapEntries(es, i + 1, files, cfiles, cdirs)
         ELSE LET r == CheckMd5ObjPath(es[i].digest, es[i].size, cfiles, cdirs)
                  copied == IF r.hit THEN r.files
                            ELSE WriteFile(r.files, r.path, GetSize(files[es[i].local_path]))
              IN RemapEntries([es EXCEPT ![i].local_path = CacheLoc(r.path)],
                              i + 1, files, copied, r.dirs)

\* Mutant: a call on a finalized artifact runs again.
IsFinalNever(final) == FALSE

\* "if self._final: return"
IsFinal(final) == final

\* Mutant: the entries are not retargeted.
FinalizeKeepsPaths(es, added_new, order, files, cfiles, cdirs) ==
    LET added == IF added_new THEN AddDirEntries(es, StageDir, <<>>, order, files) ELSE es
    IN [entries |-> added, digest |-> Digest(added), files |-> cfiles, dirs |-> cdirs]

\* Artifact.finalize on an artifact that is not final: the entries, the
\* digest and the cache it leaves.
FinalizeResult(es, added_new, order, files, cfiles, cdirs) ==
    LET added == IF added_new THEN AddDirEntries(es, StageDir, <<>>, order, files) ELSE es
        moved == IF added_new THEN RemapEntries(added, 1, files, cfiles, cdirs)
                 ELSE [entries |-> added, files |-> cfiles, dirs |-> cdirs]
    IN [entries |-> moved.entries, digest |-> Digest(added),
        files |-> moved.files, dirs |-> moved.dirs]

NoOp == [op |-> "none", result |-> "ok", final |-> FALSE, name |-> <<>>, loc |-> NoPath,
         touched |-> FALSE]

Called(op, result, name, loc, touched) ==
    aOp' = [op |-> op, result |-> result, final |-> aFinal, name |-> name, loc |-> loc,
            touched |-> touched]

\* No add_dir is running.
NoPool == [phase |-> "idle", name |-> NoName, paths |-> {}, todo |-> {}, hashed |-> <<>>]

\* Artifact.__init__, and the file of the user.
ArtifactInit ==
    /\ aFinal = FALSE
    /\ aDigest = <<>>
    /\ aAddedNew = FALSE
    /\ aEntries = <<>>
    /\ aFiles = [f \in {ExtFile} |-> 1]
    /\ aHandles = {}
    /\ aOp = NoOp
    /\ aPool = NoPool

\* Artifact.new_file(name), mode "w".
NewFile ==
    /\ OnlyArtifact
    /\ \E name \in NewFileNames :
        LET path == NewFilePath(name) IN
        IF aFinal
        THEN /\ Called("new_file", "finalized", name, NoPath, FALSE)
             /\ UNCHANGED <<aAddedNew, aFiles, aHandles, aPool>>
        ELSE IF Exists(path, aFiles)
        THEN /\ Called("new_file", "exists", name, NoPath, FALSE)
             /\ UNCHANGED <<aAddedNew, aFiles, aHandles, aPool>>
        ELSE /\ Called("new_file", "ok", name, path, TRUE)
             /\ aAddedNew' = TRUE
             /\ aFiles' = [f \in DOMAIN aFiles \cup {path} |-> IF f = path THEN 0 ELSE aFiles[f]]
             /\ aHandles' = aHandles \cup {path}
             /\ UNCHANGED aPool
    /\ UNCHANGED <<aFinal, aDigest, aEntries, cacheFiles, cacheDirs>>

\* The user writes through a handle and closes it.
WriteHandle ==
    /\ OnlyArtifact
    /\ \E h \in aHandles, c \in Contents :
        /\ aFiles' = [aFiles EXCEPT ![h] = c]
        /\ aHandles' = aHandles \ {h}
    /\ UNCHANGED <<aFinal, aDigest, aAddedNew, aEntries, aOp, aPool, cacheFiles, cacheDirs>>

EntryNames(es) == {es[i].path : i \in DOMAIN es}

\* Artifact.add_file(local_path, name) of the user's file.
AddFile ==
    /\ OnlyArtifact
    /\ AddFileName \notin EntryNames(aEntries)
    /\ IF aFinal
       THEN /\ Called("add_file", "finalized", AddFileName, NoPath, FALSE)
            /\ UNCHANGED aEntries
       ELSE /\ Called("add_file", "ok", AddFileName, ExtFile, FALSE)
            /\ aEntries' = Append(aEntries,
                   [path |-> AddFileName, digest |-> Md5FileB64(aFiles[ExtFile]),
                    size |-> GetSize(aFiles[ExtFile]), ref |-> NoRef,
                    local_path |-> ExtFile])
    /\ UNCHANGED <<aFinal, aDigest, aAddedNew, aFiles, aHandles, aPool, cacheFiles, cacheDirs>>

\* Artifact.add_dir(local_path, name) of the user's directory.
AddDir ==
    /\ OnlyArtifact
    /\ \A f \in FilesBelow(ExtDir, aFiles) :
           DirEntry(ExtDir, <<AddDirName>>, f, aFiles).path \notin EntryNames(aEntries)
    /\ IF aFinal
       THEN /\ Called("add_dir", "finalized", AddDirName, NoPath, FALSE)
            /\ UNCHANGED aEntries
       ELSE /\ Called("add_dir", "ok", AddDirName, ExtDir, FALSE)
            /\ \E order \in Orders(FilesBelow(ExtDir, aFiles)) :
                   aEntries' = AddDirEntries(aEntries, ExtDir, <<AddDirName>>, order, aFiles)
    /\ UNCHANGED <<aFinal, aDigest, aAddedNew, aFiles, aHandles, aPool, cacheFiles, cacheDirs>>

\* Artifact.finalize, called directly or by the manifest or digest property.
Finalize ==
    /\ OnlyArtifact
    /\ \E op \in {"finalize", "manifest", "digest"} :
           Called(op, "ok", <<>>, NoPath, FALSE)
    /\ IF IsFinal(aFinal)
       THEN UNCHANGED <<aFinal, aDigest, aEntries, cacheFiles, cacheDirs>>
       ELSE \E order \in Orders(FilesBelow(StageDir, aFiles)) :
            LET r == FinalizeResult(aEntries, aAddedNew, order, aFiles, cacheFiles, cacheDirs)
            IN /\ aFinal' = TRUE
               /\ aDigest' = r.digest
               /\ aEntries' = r.entries
               /\ cacheFiles' = r.files
               /\ cacheDirs' = r.dirs
    /\ UNCHANGED <<aAddedNew, aFiles, aHandles, aPool>>

\* The URIs "k" and "z://h/k" and the names None and "n" given to
\* add_reference; no handler is registered for the scheme "z".
RefUris == {<<107>>, <<122, 58, 47, 47, 104, 47, 107>>}
RefNames == {NoName, <<110>>}

\* Mutant: the scheme is tested after the finalized flag.
AddReferenceErrorFinalFirst(uri, final) ==
    IF final THEN "finalized"
    ELSE IF UrlScheme(uri) = <<>> THEN "not_uri"
    ELSE "none"

\* The checks of add_reference, in their order.
AddReferenceError(uri, final) ==
    IF UrlScheme(uri) = <<>> THEN "not_uri"
    ELSE IF final THEN "finalized"
    ELSE "none"

\* Artifact.add_reference(uri, name); the policy's MultiHandler passes the
\* unknown scheme to its TrackingHandler.
AddReference ==
    /\ OnlyArtifact
    /\ \E uri \in RefUris, name \in RefNames :
        LET err == AddReferenceError(uri, aFinal)
            r == TrackingStorePath(uri, name)
        IN IF err # "none"
           THEN /\ Called("add_reference", err, uri, NoPath, FALSE)
                /\ UNCHANGED aEntries
           ELSE IF r.error # "none"
           THEN /\ Called("add_reference", r.error, uri, NoPath, FALSE)
                /\ UNCHANGED aEntries
           ELSE /\ r.entries[1].path \notin EntryNames(aEntries)
                /\ Called("add_reference", "ok", uri, NoPath, FALSE)
                /\ aEntries' = aEntries \o r.entries
    /\ UNCHANGED <<aFinal, aDigest, aAddedNew, aFiles, aHandles, aPool, cacheFiles, cacheDirs>>

ArtifactNext ==
    \/ NewFile
    \/ WriteHandle
    \/ AddFile
    \/ AddDir
    \/ AddReference
    \/ Finalize

FinalizeOps == {"finalize", "manifest", "digest"}
MutatingOps == {"new_file", "add_file", "add_dir", "add_reference"}

\* Every file below the staging directory has an entry under its relative
\* path.
StagedAreEntries(es) ==
    \A f \in FilesBelow(StageDir, aFiles) : JoinPath(f.rel) \in EntryNames(es)

\* C11: finalize() is idempotent. A call on an artifact that is not final
\* adds the staged files when new_file was used (and nothing otherwise), sets
\* final and computes the digest of the manifest; a call on a final artifact,
\* direct or through the manifest and digest properties, leaves the entries
\* with their local_path values, the digest and the cache as they are.
C11_FinalizeIdempotent ==
    [][ aOp'.op \in FinalizeOps =>
            IF aFinal
            THEN UNCHANGED <<aFinal, aEntries, aDigest, cacheFiles, cacheDirs>>
            ELSE /\ aFinal'
                 /\ aDigest' = Digest(aEntries')
                 /\ aAddedNew => StagedAreEntries(aEntries')
                 /\ ~aAddedNew => UNCHANGED <<aEntries, cacheFiles, cacheDirs>>
                 /\ Len(aEntries') = Len(aEntries)
                        + (IF aAddedNew THEN Cardinality(FilesBelow(StageDir, aFiles)) ELSE 0)
      ]_vars

\* C11 witness: the digest property was read on an artifact already final,
\* whose staged file had been moved to the cache.
C11_Witness ==
    /\ aOp.op = "digest"
    /\ aOp.final
    /\ aAddedNew
    /\ \E i \in DOMAIN aEntries : aEntries[i].local_path.root = "cache"

\* C12 as stated: on a final artifact every mutating call fails with the
\* finalized-artifact error.
C12_AlwaysFinalizedError ==
    (aOp.final /\ aOp.op \in MutatingOps) => aOp.result = "finalized"

\* C12 as amended: on a final artifact every mutating call fails and leaves
\* the manifest and the digest as they are; the error is the
\* finalized-artifact error, except that add_reference with a URI without a
\* scheme fails with the error for such URIs, which it tests first.
C12_MutationAfterFinalize ==
    [][ (aFinal /\ aOp'.op \in MutatingOps) =>
            /\ UNCHANGED <<aEntries, aDigest, aFinal>>
            /\ aOp'.result \in {"finalized", "not_uri"}
            /\ aOp'.result = "not_uri" <=>
                   (aOp'.op = "add_reference" /\ UrlScheme(aOp'.name) = <<>>)
      ]_vars

\* C12 witness: add_reference with a scheme failed on a final artifact that
\* has entries.
C12_Witness ==
    /\ aOp.final
    /\ aOp.op = "add_reference"
    /\ aOp.result = "finalized"
    /\ aEntries # <<>>

\* C13: after finalize() of an artifact with files staged through new_file no
\* entry has a local_path in the staging directory; the entry of each staged
\* file has the MD5 cache path of its digest as local_path, and a file of
\* the entry's size is there.
C13_FinaliseRemap ==
    (aFinal /\ aAddedNew) =>
        /\ StagedAreEntries(aEntries)
        /\ \A i \in DOMAIN aEntries :
               LET e == aEntries[i] IN
               /\ e.local_path.root # "stage"
               /\ (\E f \in FilesBelow(StageDir, aFiles) : JoinPath(f.rel) = e.path) =>
                      /\ e.local_path = CacheLoc(Md5ObjPath(e.digest))
                      /\ Md5ObjPath(e.digest) \in DOMAIN cacheFiles
                      /\ cacheFiles[Md5ObjPath(e.digest)] = e.size

\* C13 witness: two staged files of different contents and a file of the user
\* are entries of the final artifact.
C13_Witness ==
    /\ aFinal
    /\ \E i, j, k \in DOMAIN aEntries :
           /\ aEntries[i].local_path.root = "cache"
           /\ aEntries[j].local_path.root = "cache"
           /\ aEntries[i].digest # aEntries[j].digest
           /\ aEntries[k].local_path.root = "ext"

\* C14: new_file(name) on an artifact that is not final fails for a name whose
\* file exists, without opening or truncating it; a call that succeeds marks
\* added_new and returns a handle to a file under the staging directory.
C14_NewFile ==
    (aOp.op = "new_file" /\ ~aOp.final) =>
        /\ aOp.result \in {"ok", "exists"}
        /\ aOp.result = "exists" => ~aOp.touched
        /\ aOp.result = "ok" => (aAddedNew /\ aOp.loc.root = "stage")

(***************************************************************************)
(*                   Artifact.add_dir: the thread pool                     *)
(***************************************************************************)

\* ---- program constants ----
NUM_THREADS == 8

\* ---- bounds of the model ----
MaxTreeFiles == 3

\* The files a directory of the user can hold: "a", "s/b", "c", "s/d", ...
TreeRel(i) == IF i % 2 = 1 THEN << <<96 + i>> >> ELSE << <<115>>, <<96 + i>> >>
TreeFiles == {[root |-> "ext", rel |-> TreeRel(i)] : i \in 1..MaxTreeFiles}

\* The directory trees: some of the files, each empty or not.
Trees == UNION {[fs -> {0, 1}] : fs \in SUBSET TreeFiles}

\* The record aPool of a running add_dir:
\*   phase   "idle", "map" (inside pool.map, line 191), "done" (add_dir
\*           returned)
\*   name    the argument name, NoName for None
\*   paths   the files the walk found (lines 167-173)
\*   todo    the files no thread has taken yet
\*   hashed  file -> the entry a thread has built for it and not yet added

NamePrefix(name) == IF name = NoName THEN <<>> ELSE <<name>>

\* ArtifactManifest.add_entry: one insertion into the map of entries, done
\* as a whole; the entry of a path replaces the entry the path had.
AddEntry(es, e) ==
    IF \E i \in DOMAIN es : es[i].path = e.path
    THEN [i \in DOMAIN es |-> IF es[i].path = e.path THEN e ELSE es[i]]
    ELSE Append(es, e)

\* Lines 155-173 and 188-191: the checks and the walk; the pool is made and
\* given the paths.
AddDirWalk ==
    /\ aPool.phase = "idle"
    /\ OnlyArtifact
    /\ ~aFinal
    /\ \E name \in {NoName, AddDirName} :
        aPool' = [phase |-> "map", name |-> name,
                  paths |-> FilesBelow(ExtDir, aFiles),
                  todo |-> FilesBelow(ExtDir, aFiles), hashed |-> <<>>]
    /\ UNCHANGED <<aFinal, aDigest, aAddedNew, aEntries, aFiles, aHandles, aOp,
                   cacheFiles, cacheDirs>>

\* Lines 175-184: a free thread of the pool takes a path, hashes the file and
\* builds its entry.
PoolHash ==
    /\ aPool.phase = "map"
    /\ OnlyArtifact
    /\ Cardinality(DOMAIN aPool.hashed) < NUM_THREADS
    /\ \E f \in aPool.todo :
        aPool' = [aPool EXCEPT
                    !.todo = @ \ {f},
                    !.hashed = [g \in DOMAIN @ \cup {f} |->
                                  IF g = f
                                  THEN DirEntry(ExtDir, NamePrefix(aPool.name), f, aFiles)
                                  ELSE @[g]]]
    /\ UNCHANGED <<aFinal, aDigest, aAddedNew, aEntries, aFiles, aHandles, aOp,
                   cacheFiles, cacheDirs>>

\* Line 178: the thread adds its entry to the manifest.
PoolAddEntry ==
    /\ aPool.phase = "map"
    /\ OnlyArtifact
    /\ \E f \in DOMAIN aPool.hashed :
        /\ aEntries' = AddEntry(aEntries, aPool.hashed[f])
        /\ aPool' = [aPool EXCEPT
                       !.hashed = [g \in DOMAIN @ \ {f} |-> @[g]]]
    /\ UNCHANGED <<aFinal, aDigest, aAddedNew, aFiles, aHandles, aOp,
                   cacheFiles, cacheDirs>>

\* Lines 191-195: pool.map has returned; add_dir returns.
PoolJoin ==
    /\ aPool.phase = "map"
    /\ OnlyArtifact
    /\ aPool.todo = {}
    /\ aPool.hashed = <<>>
    /\ aPool' = [aPool EXCEPT !.phase = "done"]
    /\ Called("add_dir", "ok", aPool.name, ExtDir, FALSE)
    /\ UNCHANGED <<aFinal, aDigest, aAddedNew, aEntries, aFiles, aHandles,
                   cacheFiles, cacheDirs>>

AddDirNext ==
    \/ AddDirWalk
    \/ PoolHash
    \/ PoolAddEntry
    \/ PoolJoin

\* The entries of the file f.
EntriesFor(f) ==
    {i \in DOMAIN aEntries :
        aEntries[i].path = JoinPath(NamePrefix(aPool.name) \o f.rel)}

NoId == <<>>
NoExtra == {}

\* The values an entry of the program has: a ref and a birth artifact id are
\* None or a non-empty string ("r", "i"), a size is None or a number, extra
\* is {} or has keys, and a local_path comes with a size.
JsonPaths == {<<97>>, <<98>>}
JsonEntries(path) ==
    {e \in [path : {path}, digest : EntryDigests, birth_artifact_id : {NoId, <<105>>},
            ref : {NoRef, <<114>>}, size : {NoSize, 0, 1}, extra : {NoExtra, {"etag"}},
            local_path : {NoPath, ExtFile}] :
        e.local_path # NoPath => e.size # NoSize}

\* The truth value of a string (None is falsy too) and of a dict.
TruthyStr(v) == v # <<>>
TruthyDict(v) == v # {}

\* Mutant: the size is written when it is truthy.
JsonEntrySizeIfTruthy(entry) ==
    LET keys == {"digest"}
                \cup (IF TruthyStr(entry.birth_artifact_id) THEN {"birthArtifactID"} ELSE {})
                \cup (IF TruthyStr(entry.ref) THEN {"ref"} ELSE {})
                \cup (IF TruthyDict(entry.extra) THEN {"extra"} ELSE {})
                \cup (IF entry.size # NoSize /\ entry.size # 0 THEN {"size"} ELSE {})
    IN [k \in keys |->
           CASE k = "digest" -> entry.digest
             [] k = "birthArtifactID" -> entry.birth_artifact_id
             [] k = "ref" -> entry.ref
             [] k = "extra" -> entry.extra
             [] k = "size" -> entry.size]

\* json_entry of to_manifest_json: the keys written and their values.
JsonEntry(entry) ==
    LET keys == {"digest"}
                \cup (IF TruthyStr(entry.birth_artifact_id) THEN {"birthArtifactID"} ELSE {})
                \cup (IF TruthyStr(entry.ref) THEN {"ref"} ELSE {})
                \cup (IF TruthyDict(entry.extra) THEN {"extra"} ELSE {})
                \cup (IF entry.size # NoSize THEN {"size"} ELSE {})
    IN [k \in keys |->
           CASE k = "digest" -> entry.digest
             [] k = "birthArtifactID" -> entry.birth_artifact_id
             [] k = "ref" -> entry.ref
             [] k = "extra" -> entry.extra
             [] k = "size" -> entry.size]

\* ArtifactManifestV1.to_manifest_json: contents[entry.path] for every entry.
ToManifestJson(entries) ==
    [version |-> 1,
     contents |-> [p \in {entries[k].path : k \in DOMAIN entries} |->
                      JsonEntry(entries[CHOOSE k \in DOMAIN entries : entries[k].path = p])]]

\* val.get(key), with the default given for None.
JsonGet(val, key, default) == IF key \in DOMAIN val THEN val[key] ELSE default

\* ArtifactManifestEntry.__init__
ManifestEntry(path, ref, digest, birth_artifact_id, size, extra, local_path) ==
    [path |-> path, ref |-> ref, digest |-> digest, birth_artifact_id |-> birth_artifact_id,
     size |-> size, extra |-> IF TruthyDict(extra) THEN extra ELSE NoExtra,
     local_path |-> local_path]

\* ArtifactManifestV1.from_manifest_json of a version 1 manifest.
FromManifestJson(json) ==
    [name \in DOMAIN json.contents |->
        LET val == json.contents[name] IN
        ManifestEntry(name,
                      JsonGet(val, "ref", NoRef),
                      val["digest"],
                      JsonGet(val, "birthArtifactID", NoId),
                      JsonGet(val, "size", NoSize),
                      JsonGet(val, "extra", NoExtra),
                      JsonGet(val, "local_path", NoPath))]

NoJson == [version |-> 0, contents |-> <<>>]

JsonInit ==
    /\ mEntries = <<>>
    /\ mJson = NoJson
    /\ mRead = <<>>
    /\ mStage = "built"

\* An entry under a new path is added to the manifest.
JsonAddEntry ==
    /\ OnlyJson
    /\ \E p \in JsonPaths \ DOMAIN mEntries : \E e \in JsonEntries(p) :
           mEntries' = [q \in DOMAIN mEntries \cup {p} |-> IF q = p THEN e ELSE mEntries[q]]
    /\ mJson' = NoJson
    /\ mRead' = <<>>
    /\ mStage' = "built"

JsonWrite ==
    /\ OnlyJson
    /\ mStage = "built"
    /\ mJson' = ToManifestJson(mEntries)
    /\ mStage' = "written"
    /\ UNCHANGED <<mEntries, mRead>>

JsonRead ==
    /\ OnlyJson
    /\ mStage = "written"
    /\ mJson.version = 1
    /\ mRead' = FromManifestJson(mJson)
    /\ mStage' = "read"
    /\ UNCHANGED <<mEntries, mJson>>

JsonNext ==
    \/ JsonAddEntry
    \/ JsonWrite
    \/ JsonRead

\* C15: to_manifest_json writes one contents item per entry, under the entry's
\* path, never with a local_path, always with the digest and with
\* birthArtifactID, ref, extra and size exactly when they are set; the
\* entries from_manifest_json makes of it have the same path, digest, ref,
\* size, extra and birth artifact id.
C15_ManifestSerialisation ==
    /\ mStage \in {"written", "read"} =>
           /\ DOMAIN mJson.contents = DOMAIN mEntries
           /\ \A p \in DOMAIN mEntries :
                  LET e == mEntries[p]
                      item == mJson.contents[p]
                  IN /\ "local_path" \notin DOMAIN item
                     /\ DOMAIN item \subseteq {"digest", "birthArtifactID", "ref", "extra", "size"}
                     /\ item["digest"] = e.digest
                     /\ "birthArtifactID" \in DOMAIN item <=> e.birth_artifact_id # NoId
                     /\ "ref" \in DOMAIN item <=> e.ref # NoRef
                     /\ "extra" \in DOMAIN item <=> e.extra # NoExtra
                     /\ "size" \in DOMAIN item <=> e.size # NoSize
    /\ mStage = "read" =>
           /\ DOMAIN mRead = DOMAIN mEntries
           /\ \A p \in DOMAIN mEntries :
                  /\ mRead[p] = [mEntries[p] EXCEPT !.local_path = NoPath]
                  /\ mRead[p].path = p

\* C15 witness: a manifest of two entries was written and read back, one entry
\* with a local_path and the size 0, one with no optional value.
C15_Witness ==
    /\ mStage = "read"
    /\ \E p, q \in DOMAIN mEntries :
           /\ mEntries[p].local_path # NoPath
           /\ mEntries[p].size = 0
           /\ mEntries[p].ref # NoRef
           /\ DOMAIN mJson.contents[q] = {"digest"}

(***************************************************************************)
(*                     WandbStoragePolicy.store_file                       *)
(***************************************************************************)

\* resp.upload_url is None.
NoUrl == <<>>

\* The entries stored: their md5 ("AAAB", "AQAA") and the size of the local
\* file, which is the entry's size; two of them have the same md5.
StoredEntries ==
    {[digest |-> <<65, 65, 65, 66>>, size |-> 1], [digest |-> <<65, 65, 65, 66>>, size |-> 2],
     [digest |-> <<65, 81, 65, 65>>, size |-> 1]}

\* What the preparer can answer: an id ("i", "j"), and an upload URL ("u") or
\* none.
Responses == [birth_artifact_id : {<<105>>, <<106>>}, upload_url : {NoUrl, <<117>>}]

\* Mutant: the object is taken to exist when there is an upload URL.
StoreFileOutcomeUrlMeansExists(hit, resp, put_ok) ==
    LET exists == resp.upload_url # NoUrl IN
    [trace |-> (IF hit THEN <<>> ELSE <<"copy">>) \o <<"prepare">>
                   \o (IF exists THEN <<>> ELSE <<"put local_path">>),
     birth_artifact_id |-> resp.birth_artifact_id,
     returned |-> IF exists THEN "true" ELSE IF put_ok THEN "false" ELSE "error"]

\* store_file after its cache lookup: what it does, in order, the id it
\* assigns and what it returns ("error": raise_for_status raised).
StoreFileOutcome(hit, resp, put_ok) ==
    LET exists == resp.upload_url = NoUrl IN
    [trace |-> (IF hit THEN <<>> ELSE <<"copy">>) \o <<"prepare">>
                   \o (IF exists THEN <<>> ELSE <<"put local_path">>),
     birth_artifact_id |-> resp.birth_artifact_id,
     returned |-> IF exists THEN "true" ELSE IF put_ok THEN "false" ELSE "error"]

NoCall ==
    [entry |-> [digest |-> <<>>, size |-> NoSize], hit |-> FALSE,
     resp |-> [birth_artifact_id |-> NoId, upload_url |-> NoUrl], put_ok |-> FALSE,
     trace |-> <<>>, returned |-> "none"]

StoreInit ==
    /\ sfBirth = [e \in StoredEntries |-> NoId]
    /\ sfCall = NoCall

\* WandbStoragePolicy.store_file(artifact_id, entry, preparer), with the
\* answer of the preparer and the outcome of the PUT.
StoreFileCall ==
    /\ OnlyStore
    /\ \E entry \in StoredEntries, resp \in Responses, put_ok \in BOOLEAN :
        LET r == CheckMd5ObjPath(entry.digest, entry.size, cacheFiles, cacheDirs)
            o == StoreFileOutcome(r.hit, resp, put_ok)
        IN /\ cacheFiles' = IF r.hit THEN r.files ELSE WriteFile(r.files, r.path, entry.size)
           /\ cacheDirs' = r.dirs
           /\ sfBirth' = [sfBirth EXCEPT ![entry] = o.birth_artifact_id]
           /\ sfCall' = [entry |-> entry, hit |-> r.hit, resp |-> resp, put_ok |-> put_ok,
                         trace |-> o.trace, returned |-> o.returned]

StoreNext == StoreFileCall

Count(seq, x) == Cardinality({i \in DOMAIN seq : seq[i] = x})

\* C16: store_file copies entry.local_path into the MD5 cache iff the lookup
\* misses, before it calls the preparer once; the entry's birth_artifact_id is
\* the one of the response; without an upload_url there is no PUT and the
\* call returns true; with one there is exactly one PUT, of the file at
\* local_path, after which the call returns false (or raises, if the PUT
\* failed).
C16_StoreFile ==
    sfCall.returned # "none" =>
        /\ Count(sfCall.trace, "copy") = (IF sfCall.hit THEN 0 ELSE 1)
        /\ Count(sfCall.trace, "prepare") = 1
        /\ \A i, j \in DOMAIN sfCall.trace :
               (sfCall.trace[i] = "copy" /\ sfCall.trace[j] = "prepare") => i < j
        /\ \A i, j \in DOMAIN sfCall.trace :
               (sfCall.trace[i] = "prepare" /\ sfCall.trace[j] = "put local_path") => i < j
        /\ Md5ObjPath(sfCall.entry.digest) \in DOMAIN cacheFiles
        /\ cacheFiles[Md5ObjPath(sfCall.entry.digest)] = sfCall.entry.size
        /\ sfBirth[sfCall.entry] = sfCall.resp.birth_artifact_id
        /\ sfCall.resp.upload_url = NoUrl =>
               (sfCall.returned = "true" /\ Count(sfCall.trace, "put local_path") = 0)
        /\ sfCall.resp.upload_url # NoUrl =>
               /\ Count(sfCall.trace, "put local_path") = 1
               /\ sfCall.returned = (IF sfCall.put_ok THEN "false" ELSE "error")

\* C16 witness: a call found the file in the cache, got an upload URL, put the
\* file and returned false, and the entry has the id of the response.
C16_Witness ==
    /\ sfCall.hit
    /\ sfCall.returned = "false"
    /\ sfCall.trace = <<"prepare", "put local_path">>
    /\ sfBirth[sfCall.entry] = <<106>>
    /\ \E e \in StoredEntries : Md5ObjPath(e.digest) \notin DOMAIN cacheFiles

(***************************************************************************)
(*        MultiHandler, TrackingHandler, S3Handler, GCSHandler, HTTPHandler *)
(***************************************************************************)

\* The schemes of the handlers a MultiHandler can hold: "s3", "gs", "http".
S3Scheme == <<115, 51>>
GCSScheme == <<103, 115>>
HTTPScheme == <<104, 116, 116, 112>>
Schemes == {S3Scheme, GCSScheme, HTTPScheme}

\* A scheme no handler has: "z".
UnknownScheme == <<122>>

\* "<scheme>://h/k"
Uri(scheme) == scheme \o <<58, 47, 47, 104, 47, 107>>
HandlerUris == {Uri(sch) : sch \in Schemes \cup {UnknownScheme}}

\* The names passed to store_path: None, "" and "n".
HandlerNames == {NoName, <<>>, <<110>>}

\* The digest a handler records for the object: an MD5 for GCS, an ETag for
\* S3 and HTTP.
DigestOf(scheme) == IF scheme = GCSScheme THEN <<65, 65, 65, 66>> ELSE <<97, 98, 99>>

\* The manifest entries loaded: per scheme one of the smallest and one of the
\* largest size, as the scheme's handler records them, and one as the
\* TrackingHandler records it.
LoadEntries ==
    {[path |-> <<110>>, ref |-> Uri(sch), digest |-> DigestOf(sch), size |-> n] :
        sch \in Schemes, n \in {1, MaxSize}}
    \cup {[path |-> <<110>>, ref |-> Uri(UnknownScheme), digest |-> Uri(UnknownScheme),
           size |-> NoSize]}

\* ---- results of load_path ----

Failed(err, files, dirs) ==
    [error |-> err, kind |-> "none", cache_path |-> <<>>, text |-> <<>>,
     downloaded |-> FALSE, files |-> files, dirs |-> dirs]

ReturnedCachePath(path, downloaded, files, dirs) ==
    [error |-> "none", kind |-> "cache_path", cache_path |-> path, text |-> <<>>,
     downloaded |-> downloaded, files |-> files, dirs |-> dirs]

ReturnedText(kind, text, files, dirs) ==
    [error |-> "none", kind |-> kind, cache_path |-> <<>>, text |-> text,
     downloaded |-> FALSE, files |-> files, dirs |-> dirs]

\* S3Handler.load_path for an entry without a versionID; found: the bucket
\* has an object, or a version of it, with the entry's ETag.
S3LoadPath(entry, local, found, files, dirs) ==
    LET r == CheckEtagObjPath(entry.digest, entry.size, files, dirs) IN
    IF r.hit THEN ReturnedCachePath(r.path, FALSE, r.files, r.dirs)
    ELSE IF ~found THEN Failed("digest_mismatch", r.files, r.dirs)
    ELSE IF ~local THEN ReturnedText("ref", entry.ref, r.files, r.dirs)
    ELSE ReturnedCachePath(r.path, TRUE, WriteFile(r.files, r.path, entry.size), r.dirs)

\* GCSHandler.load_path; found: the bucket has the blob and its MD5 is the
\* entry's.
GCSLoadPath(entry, local, found, files, dirs) ==
    LET r == CheckMd5ObjPath(entry.digest, entry.size, files, dirs) IN
    IF r.hit THEN ReturnedCachePath(r.path, FALSE, r.files, r.dirs)
    ELSE IF ~found THEN Failed("digest_mismatch", r.files, r.dirs)
    ELSE IF ~local THEN ReturnedText("ref", entry.ref, r.files, r.dirs)
    ELSE ReturnedCachePath(r.path, TRUE, WriteFile(r.files, r.path, entry.size), r.dirs)

\* HTTPHandler.load_path; found: the GET succeeds and its ETag is the
\* entry's.
HTTPLoadPath(entry, local, found, files, dirs) ==
    IF ~local THEN ReturnedText("ref", entry.ref, files, dirs)
    ELSE LET r == CheckEtagObjPath(entry.digest, entry.size, files, dirs) IN
         IF r.hit THEN ReturnedCachePath(r.path, FALSE, r.files, r.dirs)
         ELSE IF ~found THEN Failed("digest_mismatch", r.files, r.dirs)
         ELSE ReturnedCachePath(r.path, TRUE, WriteFile(r.files, r.path, entry.size), r.dirs)

\* TrackingHandler.load_path, as a result of the same shape.
DefaultLoadPath(entry, local, files, dirs) ==
    LET r == TrackingLoadPath(entry, local) IN
    IF r.error # "none" THEN Failed(r.error, files, dirs)
    ELSE ReturnedText("path", r.value, files, dirs)

\* self._handlers[url.scheme].load_path
HandlerLoadPath(scheme, entry, local, found, files, dirs) ==
    IF scheme = S3Scheme THEN S3LoadPath(entry, local, found, files, dirs)
    ELSE IF scheme = GCSScheme THEN GCSLoadPath(entry, local, found, files, dirs)
    ELSE HTTPLoadPath(entry, local, found, files, dirs)

\* ---- store_path of the handlers ----

\* url.path[1:]
ParseKey(uri) == IF UrlPath(uri) = <<>> THEN <<>> ELSE Tail(UrlPath(uri))

\* os.path.basename
Basename(str) ==
    LET slashes == {i \in DOMAIN str : str[i] = 47} IN
    IF slashes = {} THEN str
    ELSE SubSeq(str, (CHOOSE i \in slashes : \A j \in slashes : j <= i) + 1, Len(str))

\* "name or alt"
NameOr(name, alt) == IF name # NoName /\ name # <<>> THEN name ELSE alt

RefEntry(name, ref, digest, size) ==
    [path |-> name, digest |-> digest, size |-> size, ref |-> ref, local_path |-> NoPath]

\* _entry_from_obj for the one object at the key (multi is false).
NameFromObj(name, key) == IF name = NoName THEN Basename(key) ELSE name

\* S3Handler.store_path when the bucket has an object of obj_size bytes at
\* the key (reachable), or cannot be asked (CommError).
S3StorePath(path, name, checksum, reachable, obj_size) ==
    IF ~checksum
    THEN [error |-> "none", read |-> FALSE,
          entries |-> <<RefEntry(NameOr(name, ParseKey(path)), path, path, NoSize)>>]
    ELSE IF ~reachable THEN [error |-> "comm_error", read |-> FALSE, entries |-> <<>>]
    ELSE [error |-> "none", read |-> TRUE,
          entries |-> IF obj_size > 0
                      THEN <<RefEntry(NameFromObj(name, ParseKey(path)), path,
                                      DigestOf(S3Scheme), obj_size)>>
                      ELSE <<>>]

\* GCSHandler.store_path when the bucket has a blob of obj_size bytes at the
\* key (reachable), or cannot be asked.
GCSStorePath(path, name, checksum, reachable, obj_size) ==
    IF ~checksum
    THEN [error |-> "none", read |-> FALSE,
          entries |-> <<RefEntry(NameOr(name, ParseKey(path)), path, path, NoSize)>>]
    ELSE IF ~reachable THEN [error |-> "comm_error", read |-> FALSE, entries |-> <<>>]
    ELSE [error |-> "none", read |-> TRUE,
          entries |-> <<RefEntry(NameFromObj(name, ParseKey(path)), path,
                                 DigestOf(GCSScheme), obj_size)>>]

\* HTTPHandler.store_path; reachable: the GET succeeds, with an ETag and a
\* Content-Length of obj_size.
HTTPStorePath(path, name, checksum, reachable, obj_size) ==
    IF ~checksum
    THEN [error |-> "none", read |-> FALSE,
          entries |-> <<RefEntry(NameOr(name, Basename(path)), path, path, NoSize)>>]
    ELSE IF ~reachable THEN [error |-> "http_error", read |-> FALSE, entries |-> <<>>]
    ELSE [error |-> "none", read |-> TRUE,
          entries |-> <<RefEntry(NameOr(name, Basename(path)), path,
                                 DigestOf(HTTPScheme), obj_size)>>]

\* self._handlers[url.scheme].store_path
HandlerStorePath(scheme, path, name, checksum, reachable, obj_size) ==
    IF scheme = S3Scheme THEN S3StorePath(path, name, checksum, reachable, obj_size)
    ELSE IF scheme = GCSScheme THEN GCSStorePath(path, name, checksum, reachable, obj_size)
    ELSE HTTPStorePath(path, name, checksum, reachable, obj_size)

\* What store_path is asked and finds: no checksum wanted; or a checksum
\* wanted and the object out of reach, empty, or of one byte.
StoreEnvs ==
    {[checksum |-> FALSE, reachable |-> TRUE, obj_size |-> 1],
     [checksum |-> TRUE, reachable |-> FALSE, obj_size |-> 1],
     [checksum |-> TRUE, reachable |-> TRUE, obj_size |-> 0],
     [checksum |-> TRUE, reachable |-> TRUE, obj_size |-> 1]}

\* ---- MultiHandler ----

RouteTo(scheme) == [handler |-> {scheme}, default |-> FALSE, error |-> "none"]
RouteToDefault == [handler |-> {}, default |-> TRUE, error |-> "none"]
RouteFails(err) == [handler |-> {}, default |-> FALSE, error |-> err]

\* Mutant: a configured default handler takes every URI.
MultiLoadRouteDefaultFirst(schemes, default, uri) ==
    IF default THEN RouteToDefault
    ELSE IF UrlScheme(uri) \notin schemes THEN RouteFails("no_handler")
    ELSE RouteTo(UrlScheme(uri))

\* The handler MultiHandler.load_path calls.
MultiLoadRoute(schemes, default, uri) ==
    IF UrlScheme(uri) \notin schemes
    THEN IF default THEN RouteToDefault ELSE RouteFails("no_handler")
    ELSE RouteTo(UrlScheme(uri))

\* The handler MultiHandler.store_path calls: it tests "self._handlers is not
\* None", which holds of every MultiHandler, and then calls store_path on the
\* default handler, an AttributeError when that is None.
MultiStoreRoute(schemes, default, uri) ==
    IF UrlScheme(uri) \notin schemes
    THEN IF default THEN RouteToDefault ELSE RouteFails("attribute_error")
    ELSE RouteTo(UrlScheme(uri))

NoHandlerCall ==
    [op |-> "none", uri |-> <<>>, name |-> NoName, local |-> FALSE, hit |-> FALSE,
     handler |-> {}, default |-> FALSE, error |-> "none", kind |-> "none",
     cache_path |-> <<>>, text |-> <<>>, downloaded |-> FALSE, entries |-> <<>>,
     read |-> FALSE, entry_path |-> <<>>]

\* No MultiHandler is in use.
HandlerIdle ==
    /\ hSchemes = {}
    /\ hDefault = FALSE
    /\ hCall = NoHandlerCall
    /\ s3Versioning = "none"

\* MultiHandler.__init__(handlers, default_handler)
HandlerInit ==
    /\ hSchemes \in SUBSET Schemes
    /\ hDefault \in BOOLEAN
    /\ hCall = NoHandlerCall
    /\ s3Versioning = "none"

\* The entry's object is in the cache, with the entry's size.
InCache(entry, files) ==
    LET path == IF UrlScheme(entry.ref) = GCSScheme THEN Md5ObjPath(entry.digest)
                ELSE EtagObjPath(entry.digest)
    IN UrlScheme(entry.ref) \in Schemes /\ path \in DOMAIN files /\ files[path] = entry.size

\* MultiHandler.load_path(artifact, manifest_entry, local)
MultiLoadPath ==
    /\ OnlyHandlers
    /\ \E entry \in LoadEntries, local \in BOOLEAN, found \in BOOLEAN :
        LET t == MultiLoadRoute(hSchemes, hDefault, entry.ref)
            r == IF t.error # "none" THEN Failed(t.error, cacheFiles, cacheDirs)
                 ELSE IF t.default THEN DefaultLoadPath(entry, local, cacheFiles, cacheDirs)
                 ELSE HandlerLoadPath(UrlScheme(entry.ref), entry, local, found,
                                      cacheFiles, cacheDirs)
        IN /\ cacheFiles' = r.files
           /\ cacheDirs' = r.dirs
           /\ hCall' = [op |-> "load_path", uri |-> entry.ref, name |-> NoName,
                        local |-> local, hit |-> InCache(entry, cacheFiles),
                        handler |-> t.handler, default |-> t.default, error |-> r.error,
                        kind |-> r.kind, cache_path |-> r.cache_path, text |-> r.text,
                        downloaded |-> r.downloaded, entries |-> <<>>, read |-> FALSE,
                        entry_path |-> entry.path]
    /\ UNCHANGED <<hSchemes, hDefault, s3Versioning>>

\* MultiHandler.store_path(artifact, path, name, checksum, max_objects)
MultiStorePath ==
    /\ OnlyHandlers
    /\ \E path \in HandlerUris, name \in HandlerNames, env \in StoreEnvs :
        LET t == MultiStoreRoute(hSchemes, hDefault, path)
            r == IF t.error # "none"
                 THEN [error |-> t.error, read |-> FALSE, entries |-> <<>>]
                 ELSE IF t.default THEN TrackingStorePath(path, name)
                 ELSE HandlerStorePath(UrlScheme(path), path, name, env.checksum,
                                       env.reachable, env.obj_size)
        IN hCall' = [op |-> "store_path", uri |-> path, name |-> name, local |-> FALSE,
                     hit |-> FALSE, handler |-> t.handler, default |-> t.default,
                     error |-> r.error, kind |-> "none", cache_path |-> <<>>,
                     text |-> <<>>, downloaded |-> FALSE, entries |-> r.entries,
                     read |-> r.read, entry_path |-> <<>>]
    /\ UNCHANGED <<hSchemes, hDefault, s3Versioning, cacheFiles, cacheDirs>>

HandlerNext ==
    \/ MultiLoadPath
    \/ MultiStorePath

\* C17: in store_path and in load_path alike, a URI whose scheme has a
\* registered handler is passed to that handler and to no other, and a URI
\* whose scheme has none is passed to the default handler, and to no other,
\* when a default handler is configured.
C17_MultiHandlerDispatch ==
    hCall.op # "none" =>
        /\ UrlScheme(hCall.uri) \in hSchemes =>
               (hCall.handler = {UrlScheme(hCall.uri)} /\ ~hCall.default)
        /\ (UrlScheme(hCall.uri) \notin hSchemes /\ hDefault) =>
               (hCall.handler = {} /\ hCall.default)

\* C17 witness: with handlers registered, a store_path of a URI of another
\* scheme went to the default handler, which returned an entry.
C17_Witness ==
    /\ hCall.op = "store_path"
    /\ hSchemes = {S3Scheme, HTTPScheme}
    /\ UrlScheme(hCall.uri) = GCSScheme
    /\ hCall.default
    /\ Len(hCall.entries) = 1

\* C18: when the URI's scheme has no registered handler and no default
\* handler is configured, store_path and load_path fail with the "No storage
\* handler registered for scheme" error.
C18_UnsupportedScheme ==
    (hCall.op # "none" /\ UrlScheme(hCall.uri) \notin hSchemes /\ ~hDefault) =>
        hCall.error = "no_handler"

\* The entry the TrackingHandler returned is named after the URI's path.
NamedFromUri(entry, uri) ==
    /\ UrlPath(uri) # <<>>
    /\ entry.path = SubSeq(UrlPath(uri), 2, Len(UrlPath(uri)))

\* What C19 says of load_path, and of store_path but for the entry's path.
TrackingContract ==
    /\ hCall.op = "store_path" =>
           IF hCall.name = NoName
           THEN hCall.error = "name_required" /\ hCall.entries = <<>>
           ELSE /\ hCall.error = "none"
                /\ Len(hCall.entries) = 1
                /\ hCall.entries[1].ref = hCall.uri
                /\ hCall.entries[1].digest = hCall.uri
                /\ ~hCall.read
    /\ hCall.op = "load_path" =>
           IF hCall.local
           THEN hCall.error = "not_recognized"
           ELSE hCall.error = "none" /\ hCall.kind = "path" /\ hCall.text = hCall.entry_path

\* C19 as stated: the TrackingHandler's store_path fails when name is absent
\* and otherwise returns exactly one entry whose path is name, whose ref and
\* digest are the URI, reading nothing; its load_path returns entry.path when
\* local is false and fails when local is true.
C19_TrackingPathIsName ==
    hCall.default =>
        /\ TrackingContract
        /\ (hCall.op = "store_path" /\ hCall.name # NoName) =>
               hCall.entries[1].path = hCall.name

\* C19, amended: as stated, but the entry's path is name only when name is
\* not empty; for the empty name it is the URI's path without its first
\* character.
C19_TrackingHandler ==
    hCall.default =>
        /\ TrackingContract
        /\ (hCall.op = "store_path" /\ hCall.name # NoName) =>
               IF hCall.name # <<>>
               THEN hCall.entries[1].path = hCall.name
               ELSE NamedFromUri(hCall.entries[1], hCall.uri)

\* C19 witness: the TrackingHandler stored a reference under the name "n".
C19_Witness ==
    /\ hCall.default
    /\ hCall.op = "store_path"
    /\ hCall.name = <<110>>
    /\ hCall.error = "none"
    /\ hCall.entries[1].path = <<110>>
    /\ hCall.entries[1].digest = Uri(UnknownScheme)

\* C20: a load_path of the S3, GCS or HTTP handler with local false that
\* succeeds returns the entry's reference URI and downloads nothing, whether
\* or not the object is in the cache.
C20_ReferenceWithoutDownload ==
    (hCall.op = "load_path" /\ hCall.handler # {} /\ ~hCall.local /\ hCall.error = "none") =>
        /\ hCall.kind = "ref"
        /\ hCall.text = hCall.uri
        /\ ~hCall.downloaded

(***************************************************************************)
(*               S3Handler.load_path: the check of the digest              *)
(***************************************************************************)

\* The ETags of the objects in the buckets: "abc" and "xyz".
S3Etags == {<<97, 98, 99>>, <<120, 121, 122>>}

\* entry.extra has no "etag".
NoEtag == <<>>

\* urlparse(uri).netloc: what follows "//" up to the next "/".
UrlNetloc(uri) ==
    LET sch == UrlScheme(uri)
        rest == IF sch = <<>> THEN uri ELSE SubSeq(uri, Len(sch) + 2, Len(uri))
    IN IF Len(rest) >= 2 /\ rest[1] = 47 /\ rest[2] = 47
       THEN LET after == SubSeq(rest, 3, Len(rest))
                k == IndexOf(after, 47)
            IN IF k = 0 THEN after ELSE SubSeq(after, 1, k - 1)
       ELSE <<>>

\* The buckets: versioning is enabled on "h" and not on "g".
VersionedBucket == <<104>>
PlainBucket == <<103>>
BucketVersioned(bucket) == bucket = VersionedBucket

\* "s3://<bucket>/k"
S3Uri(bucket) == S3Scheme \o <<58, 47, 47>> \o bucket \o <<47, 107>>

\* The S3 entries loaded: no versionID, the digest "abc", and in extra the
\* same ETag, another one, or none.
S3Entries ==
    {[path |-> <<110>>, ref |-> S3Uri(b), digest |-> <<97, 98, 99>>, size |-> 1,
      extra_etag |-> e] : b \in {VersionedBucket, PlainBucket}, e \in S3Etags \cup {NoEtag}}

\* S3Handler.versioning_enabled(bucket): the answer, and the value the handler
\* keeps for every later call.
VersioningEnabled(cached, bucket) ==
    IF cached # "none"
    THEN [value |-> cached = "enabled", cached |-> cached]
    ELSE [value |-> BucketVersioned(bucket),
          cached |-> IF BucketVersioned(bucket) THEN "enabled" ELSE "disabled"]

\* The outcome of the search for the object: the ETag of the object taken
\* (used) or the error, and the handler's versioning flag afterwards.
Taken(etag, cached) == [error |-> "none", used |-> etag, cached |-> cached]
NotTaken(err, cached) == [error |-> err, used |-> NoEtag, cached |-> cached]

\* Lines 751-781 for an entry without a versionID: latest is the ETag of the
\* object at the key, listed the ETags of the object versions under the
\* prefix.
S3FindObject(entry, latest, listed, cached) ==
    IF latest = entry.digest THEN Taken(latest, cached)
    ELSE LET v == VersioningEnabled(cached, UrlNetloc(entry.ref)) IN
         IF v.value
         THEN IF entry.extra_etag \in listed
              THEN Taken(entry.extra_etag, v.cached)
              ELSE NotTaken("no_version", v.cached)
         ELSE NotTaken("digest_mismatch", v.cached)

\* S3Handler.load_path(artifact, manifest_entry, local) with the bucket as it
\* is at the call.
S3Load ==
    /\ OnlyHandlers
    /\ \E entry \in S3Entries, local \in BOOLEAN, latest \in S3Etags :
       \E listed \in {l \in SUBSET S3Etags : latest \in l} :
        LET r == CheckEtagObjPath(entry.digest, entry.size, cacheFiles, cacheDirs)
            f == IF r.hit THEN Taken(NoEtag, s3Versioning)
                 ELSE S3FindObject(entry, latest, listed, s3Versioning)
            download == ~r.hit /\ f.error = "none" /\ local
        IN /\ cacheFiles' = IF download THEN WriteFile(r.files, r.path, entry.size)
                            ELSE r.files
           /\ cacheDirs' = r.dirs
           /\ s3Versioning' = f.cached
           /\ hCall' = [op |-> "s3_load", uri |-> entry.ref, local |-> local,
                        hit |-> r.hit, digest |-> entry.digest,
                        extra_etag |-> entry.extra_etag, latest |-> latest,
                        listed |-> listed,
                        versioned |-> BucketVersioned(UrlNetloc(entry.ref)),
                        error |-> f.error, used |-> f.used,
                        kind |-> IF f.error # "none" THEN "none"
                                 ELSE IF r.hit \/ local THEN "cache_path" ELSE "ref",
                        downloaded |-> download]
    /\ UNCHANGED <<hSchemes, hDefault>>

S3LoadNext == S3Load

\* The last call was a load of an S3 entry that missed the cache and found
\* another ETag on the latest object than the entry's digest.
S3Mismatch ==
    /\ hCall.op = "s3_load"
    /\ ~hCall.hit
    /\ hCall.latest # hCall.digest

\* C21: on a cache miss for an entry without versionID whose digest is not
\* the latest object's ETag, load_path succeeds only if versioning is enabled
\* on the bucket and a listed version has the ETag of entry.extra, and then it
\* takes that version; so the object it downloads or returns has the ETag of
\* the digest or of entry.extra.
C21_S3DigestCheck ==
    /\ (S3Mismatch /\ hCall.error = "none") =>
           /\ hCall.versioned
           /\ hCall.extra_etag \in hCall.listed
           /\ hCall.used = hCall.extra_etag
    /\ (hCall.op = "s3_load" /\ ~hCall.hit /\ hCall.error = "none") =>
           hCall.used \in {hCall.digest, hCall.extra_etag}

\* What holds of every load: the object taken has the ETag of the digest or
\* of entry.extra and is among those listed, and without a match the call
\* fails and downloads nothing.
C21_NoForeignObject ==
    /\ (S3Mismatch /\ hCall.error = "none") =>
           /\ hCall.extra_etag \in hCall.listed
           /\ hCall.used = hCall.extra_etag
    /\ (S3Mismatch /\ hCall.extra_etag \notin hCall.listed) =>
           (hCall.error # "none" /\ ~hCall.downloaded)

(***************************************************************************)
(*                 S3Handler.store_path with a checksum                    *)
(***************************************************************************)

DEFAULT_MAX_OBJECTS == 10000

\* The most objects a listing of the bucket holds.
MaxListed == 3

\* max_objects is None.
NoMax == 0

\* The values of max_objects passed.
MaxObjectsArgs == {NoMax} \cup (1..MaxListed)

\* The object of the bucket at position i of a listing under the prefix "k":
\* its key is "k/a", "k/b", ...; its ETag, with the quotes S3 puts around it,
\* is '"a"', '"b"', ...
ListedObject(i, size) ==
    [key |-> <<107, 47, 96 + i>>, e_tag |-> <<34, 96 + i, 34>>, size |-> size]

\* The object at the key "k" itself.
KeyObject(size) == [key |-> <<107>>, e_tag |-> <<34, 107, 34>>, size |-> size]

\* The listings of the bucket under the prefix: up to MaxListed objects,
\* empty or of one byte.
Listings ==
    UNION {{[i \in 1..n |-> ListedObject(i, sizes[i])] : sizes \in [1..n -> 0..1]} :
               n \in 0..MaxListed}

\* What the bucket answers: an object at the key; no object at the key (404)
\* and a listing under the prefix; another error.
S3Buckets ==
    {[head |-> "found", objects |-> <<KeyObject(n)>>] : n \in 0..1}
    \cup {[head |-> "404", objects |-> l] : l \in Listings}
    \cup {[head |-> "error", objects |-> <<>>]}

\* Mutant: the ETag is taken with its quotes.
EtagFromObjQuoted(obj) == obj.e_tag

\* S3Handler._etag_from_obj: "obj.e_tag[1:-1]"
EtagFromObj(obj) == SubSeq(obj.e_tag, 2, Len(obj.e_tag) - 1)

\* os.path.relpath(key, start=prefix) for a key below the prefix.
RelPath(key, prefix) == SubSeq(key, Len(prefix) + 2, Len(key))

\* S3Handler._entry_from_obj
S3EntryFromObj(obj, path, name, prefix, multi) ==
    LET below == obj.key # prefix
        name1 == IF name = NoName
                 THEN IF below THEN RelPath(obj.key, prefix) ELSE Basename(obj.key)
                 ELSE IF multi THEN name \o <<47>> \o RelPath(obj.key, prefix)
                 ELSE name
        ref == IF (name = NoName /\ below) \/ (name # NoName /\ multi)
               THEN path \o <<47>> \o RelPath(obj.key, prefix)
               ELSE path
    IN [path |-> name1, ref |-> ref, digest |-> EtagFromObj(obj), size |-> obj.size,
        extra_etag |-> EtagFromObj(obj)]

\* ".limit(max_objects)"
Limit(objects, n) == SubSeq(objects, 1, IF Len(objects) < n THEN Len(objects) ELSE n)

RECURSIVE EntriesOf(_, _, _, _, _)
EntriesOf(objs, path, name, prefix, multi) ==
    IF objs = <<>> THEN <<>>
    ELSE (IF Head(objs).size > 0
          THEN <<S3EntryFromObj(Head(objs), path, name, prefix, multi)>>
          ELSE <<>>)
         \o EntriesOf(Tail(objs), path, name, prefix, multi)

\* S3Handler.store_path(artifact, path, name, checksum=True, max_objects)
S3StoreObjects(path, name, max_objects_arg, bucket) ==
    LET max_objects == IF max_objects_arg # NoMax THEN max_objects_arg
                       ELSE DEFAULT_MAX_OBJECTS
        multi == bucket.head = "404"
        objs == IF multi THEN Limit(bucket.objects, max_objects) ELSE bucket.objects
        entries == EntriesOf(objs, path, name, ParseKey(path), multi)
    IN IF bucket.head = "error" THEN [error |-> "comm_error", entries |-> <<>>]
       ELSE IF Len(entries) >= max_objects THEN [error |-> "exceeded", entries |-> <<>>]
       ELSE [error |-> "none", entries |-> entries]

\* A call of store_path on the URI "s3://h/k".
S3Store ==
    /\ OnlyHandlers
    /\ \E name \in {NoName, <<110>>}, max_objects \in MaxObjectsArgs, bucket \in S3Buckets :
        LET r == S3StoreObjects(S3Uri(VersionedBucket), name, max_objects, bucket) IN
        hCall' = [op |-> "s3_store", uri |-> S3Uri(VersionedBucket), name |-> name,
                  max_objects |-> max_objects, bucket |-> bucket,
                  error |-> r.error, entries |-> r.entries]
    /\ UNCHANGED <<hSchemes, hDefault, s3Versioning, cacheFiles, cacheDirs>>

S3StoreNext == S3Store

\* The objects store_path looks at: the one at the key, or the first
\* max_objects of the listing.
Looked(call) ==
    LET max == IF call.max_objects = NoMax THEN DEFAULT_MAX_OBJECTS ELSE call.max_objects IN
    IF call.bucket.head = "found" THEN call.bucket.objects
    ELSE [i \in 1..(IF Len(call.bucket.objects) < max THEN Len(call.bucket.objects)
                    ELSE max) |-> call.bucket.objects[i]]

\* The positions among them of the objects that are not empty.
NonEmpty(objs) == {i \in DOMAIN objs : objs[i].size > 0}

\* C22: with a checksum, store_path returns one entry per object of size > 0
\* among the one at the key or, after a 404, the first max_objects listed
\* under the prefix, in their order, each with the object's ETag without its
\* quotes as digest and the object's size; it fails with the "Exceeded N
\* objects tracked" error exactly when these entries are max_objects or more.
C22_S3Store ==
    (hCall.op = "s3_store" /\ hCall.bucket.head # "error") =>
        LET objs == Looked(hCall)
            max == IF hCall.max_objects = NoMax THEN DEFAULT_MAX_OBJECTS
                   ELSE hCall.max_objects
        IN /\ hCall.error \in {"none", "exceeded"}
           /\ hCall.error = "exceeded" <=> Cardinality(NonEmpty(objs)) >= max
           /\ hCall.error = "none" =>
                 /\ Len(hCall.entries) = Cardinality(NonEmpty(objs))
                 /\ \A i \in DOMAIN hCall.entries :
                      \E j \in NonEmpty(objs) :
                          /\ Cardinality({k \in NonEmpty(objs) : k <= j}) = i
                          /\ hCall.entries[i].size = objs[j].size
                          /\ Len(hCall.entries[i].digest) = Len(objs[j].e_tag) - 2
                          /\ \A k \in DOMAIN hCall.entries[i].digest :
                                 hCall.entries[i].digest[k] = objs[j].e_tag[k + 1]

\* C22 witness: after a 404 the listing of three objects, the second empty,
\* gave two entries under max_objects = 3.
C22_Witness ==
    /\ hCall.op = "s3_store"
    /\ hCall.bucket.head = "404"
    /\ Len(hCall.bucket.objects) = 3
    /\ hCall.max_objects = 3
    /\ hCall.error = "none"
    /\ Len(hCall.entries) = 2
    /\ hCall.entries[2].digest = <<99>>

(***************************************************************************)
(*                           LocalFileHandler                              *)
(***************************************************************************)

\* "file:///d"
LocalUri == <<102, 105, 108, 101, 58, 47, 47, 47, 100>>

\* What a file can hold: its b64 MD5 and its byte length.
FileContents ==
    {[md5 |-> <<65, 65, 65, 66>>, size |-> 1], [md5 |-> <<65, 81, 65, 65>>, size |-> 2]}

\* No file at the local path.
NoFile == [exists |-> FALSE, md5 |-> <<>>, size |-> NoSize]

LocalFiles == {NoFile} \cup {[exists |-> TRUE, md5 |-> c.md5, size |-> c.size] : c \in FileContents}

\* The manifest entries that refer to the local path: the digest and the
\* size of something the file has held, or no size.
LocalEntries ==
    UNION {{[path |-> <<110>>, ref |-> LocalUri, digest |-> c.md5, size |-> n] :
                n \in {c.size, NoSize}} : c \in FileContents}

\* Mutant: the source is copied before its MD5 is compared.
LocalLoadPathCopyFirst(entry, source, files, dirs) ==
    IF ~source.exists
    THEN [error |-> "not_found", cache_path |-> <<>>, read |-> FALSE, copied |-> FALSE,
          files |-> files, dirs |-> dirs]
    ELSE LET r == CheckMd5ObjPath(entry.digest, entry.size, files, dirs) IN
         IF r.hit
         THEN [error |-> "none", cache_path |-> r.path, read |-> FALSE, copied |-> FALSE,
               files |-> r.files, dirs |-> r.dirs]
         ELSE [error |-> IF source.md5 # entry.digest THEN "digest_mismatch" ELSE "none",
               cache_path |-> IF source.md5 # entry.digest THEN <<>> ELSE r.path,
               read |-> TRUE, copied |-> TRUE,
               files |-> WriteFile(r.files, r.path, source.size),
               dirs |-> r.dirs \cup {Dirname(r.path)}]

\* LocalFileHandler.load_path(artifact, manifest_entry, local); the argument
\* local is not read.
LocalLoadPath(entry, source, files, dirs) ==
    IF ~source.exists
    THEN [error |-> "not_found", cache_path |-> <<>>, read |-> FALSE, copied |-> FALSE,
          files |-> files, dirs |-> dirs]
    ELSE LET r == CheckMd5ObjPath(entry.digest, entry.size, files, dirs) IN
         IF r.hit
         THEN [error |-> "none", cache_path |-> r.path, read |-> FALSE, copied |-> FALSE,
               files |-> r.files, dirs |-> r.dirs]
         ELSE IF source.md5 # entry.digest
         THEN [error |-> "digest_mismatch", cache_path |-> <<>>, read |-> TRUE,
               copied |-> FALSE, files |-> r.files, dirs |-> r.dirs]
         ELSE [error |-> "none", cache_path |-> r.path, read |-> TRUE, copied |-> TRUE,
               files |-> WriteFile(r.files, r.path, source.size),
               dirs |-> r.dirs \cup {Dirname(r.path)}]

\* A call of load_path; the file at the local path is whatever it holds at
\* the time of the call.
LocalLoad ==
    /\ OnlyHandlers
    /\ \E entry \in LocalEntries, source \in LocalFiles, local \in BOOLEAN :
        LET r == LocalLoadPath(entry, source, cacheFiles, cacheDirs)
            path == Md5ObjPath(entry.digest)
        IN /\ cacheFiles' = r.files
           /\ cacheDirs' = r.dirs
           /\ hCall' = [op |-> "file_load", entry |-> entry, source |-> source,
                        local |-> local,
                        hit |-> path \in DOMAIN cacheFiles /\ cacheFiles[path] = entry.size,
                        before |-> IF path \in DOMAIN cacheFiles THEN cacheFiles[path]
                                   ELSE NoSize,
                        error |-> r.error, cache_path |-> r.cache_path,
                        read |-> r.read, copied |-> r.copied]
    /\ UNCHANGED <<hSchemes, hDefault, s3Versioning>>

\* The i-th file of the directory walked: its name "a", "b", ... and what it
\* holds.
DirFile(i) ==
    [name |-> <<96 + i>>,
     md5 |-> IF i % 2 = 1 THEN <<65, 65, 65, 66>> ELSE <<65, 81, 65, 65>>,
     size |-> IF i % 2 = 1 THEN 1 ELSE 2]

\* What is at the local path: nothing, a file, or a directory of up to
\* MaxListed files, none of them in a subdirectory.
LocalTargets ==
    {[kind |-> "none", files |-> <<>>], [kind |-> "file", files |-> <<DirFile(1)>>]}
    \cup {[kind |-> "dir", files |-> [i \in 1..n |-> DirFile(i)]] : n \in 0..MaxListed}

\* "i += 1; if i >= max_objects: raise ValueError"
WalkExceeds(i, max_objects) == i >= max_objects

\* The walk of the directory from its i-th file on. The size and the MD5 of
\* a file are read at sub_path, the name of the file alone, which the
\* process resolves in its working directory: in_cwd says that the
\* directory walked is the working directory.
RECURSIVE Walk(_, _, _, _, _, _)
Walk(files, i, path, max_objects, in_cwd, entries) ==
    IF i > Len(files) THEN [error |-> "none", entries |-> entries]
    ELSE IF WalkExceeds(i, max_objects) THEN [error |-> "exceeded", entries |-> <<>>]
    ELSE IF ~in_cwd THEN [error |-> "os_error", entries |-> <<>>]
    ELSE Walk(files, i + 1, path, max_objects, in_cwd,
              Append(entries, [path |-> Basename(files[i].name),
                               ref |-> path \o <<47>> \o files[i].name,
                               digest |-> files[i].md5,
                               size |-> files[i].size]))

\* LocalFileHandler.store_path(artifact, path, name, checksum, max_objects)
LocalStorePath(path, name, checksum, max_objects_arg, target, in_cwd) ==
    LET max_objects == IF max_objects_arg # NoMax THEN max_objects_arg
                       ELSE DEFAULT_MAX_OBJECTS
    IN IF ~checksum
       THEN [error |-> "none",
             entries |-> <<[path |-> NameOr(name, Basename(path)), ref |-> path,
                            digest |-> path, size |-> NoSize]>>]
       ELSE IF target.kind = "dir"
       THEN Walk(target.files, 1, path, max_objects, in_cwd, <<>>)
       ELSE IF target.kind = "file"
       THEN [error |-> "none",
             entries |-> <<[path |-> NameOr(name, Basename(UrlNetloc(path) \o UrlPath(path))),
                            ref |-> path, digest |-> target.files[1].md5,
                            size |-> target.files[1].size]>>]
       ELSE [error |-> "invalid_path", entries |-> <<>>]

\* A call of store_path on "file:///d".
LocalStore ==
    /\ OnlyHandlers
    /\ \E name \in {NoName, <<110>>}, checksum \in BOOLEAN, max_objects \in MaxObjectsArgs,
          target \in LocalTargets, in_cwd \in BOOLEAN :
        LET r == LocalStorePath(LocalUri, name, checksum, max_objects, target, in_cwd) IN
        hCall' = [op |-> "file_store", uri |-> LocalUri, name |-> name,
                  checksum |-> checksum, max_objects |-> max_objects, target |-> target,
                  in_cwd |-> in_cwd, error |-> r.error, entries |-> r.entries]
    /\ UNCHANGED <<hSchemes, hDefault, s3Versioning, cacheFiles, cacheDirs>>

LocalNext == LocalLoad \/ LocalStore

\* The call walked a directory whose files it could read.
WalkedDir ==
    /\ hCall.op = "file_store"
    /\ hCall.checksum
    /\ hCall.target.kind = "dir"
    /\ hCall.in_cwd

\* max_objects of the call, with its default.
MaxOf(call) == IF call.max_objects = NoMax THEN DEFAULT_MAX_OBJECTS ELSE call.max_objects

\* C23: store_path on a directory raises only if the number of files found
\* in the walk exceeds max_objects, and for a directory holding max_objects
\* files or fewer it returns exactly one entry per file.
C23_LocalStoreMaxObjects ==
    WalkedDir =>
        /\ hCall.error = "exceeded" => Len(hCall.target.files) > MaxOf(hCall)
        /\ Len(hCall.target.files) <= MaxOf(hCall) =>
              /\ hCall.error = "none"
              /\ Len(hCall.entries) = Len(hCall.target.files)

\* What the code does: the walk raises as soon as it counts max_objects
\* files, and below that it returns one entry per file, in the order of
\* the walk, with the file's MD5 and size.
C23_LocalStoreBelowMax ==
    WalkedDir =>
        /\ hCall.error = "exceeded" <=> Len(hCall.target.files) >= MaxOf(hCall)
        /\ Len(hCall.target.files) < MaxOf(hCall) =>
              /\ hCall.error = "none"
              /\ Len(hCall.entries) = Len(hCall.target.files)
              /\ \A i \in DOMAIN hCall.entries :
                    /\ hCall.entries[i].digest = hCall.target.files[i].md5
                    /\ hCall.entries[i].size = hCall.target.files[i].size

\* C24 (original wording): load_path fails if the local path does not
\* exist; on a cache hit it returns the cached path without reading the
\* source; on a miss it copies the source into the cache only after the
\* recomputed MD5 equals entry.digest; on a digest mismatch it fails and the
\* cache has no file at that address.
C24_LocalLoadNoFileAtAddress ==
    hCall.op = "file_load" =>
        LET path == Md5ObjPath(hCall.entry.digest) IN
        /\ ~hCall.source.exists => hCall.error = "not_found"
        /\ (hCall.source.exists /\ hCall.hit) =>
              /\ hCall.error = "none"
              /\ hCall.cache_path = path
              /\ ~hCall.read
        /\ hCall.copied => (~hCall.hit /\ hCall.source.md5 = hCall.entry.digest)
        /\ (hCall.source.exists /\ ~hCall.hit /\ hCall.source.md5 # hCall.entry.digest) =>
              /\ hCall.error = "digest_mismatch"
              /\ path \notin DOMAIN cacheFiles

\* C24 (amended): as above, but on a digest mismatch the call fails and
\* leaves at that address of the cache what was there before the call; on a
\* miss with the right MD5 the cache holds the source at that address.
C24_LocalLoad ==
    hCall.op = "file_load" =>
        LET path == Md5ObjPath(hCall.entry.digest)
            after == IF path \in DOMAIN cacheFiles THEN cacheFiles[path] ELSE NoSize
        IN
        /\ ~hCall.source.exists => (hCall.error = "not_found" /\ after = hCall.before)
        /\ (hCall.source.exists /\ hCall.hit) =>
              /\ hCall.error = "none"
              /\ hCall.cache_path = path
              /\ ~hCall.read
              /\ after = hCall.before
        /\ hCall.copied => (~hCall.hit /\ hCall.source.md5 = hCall.entry.digest)
        /\ (hCall.source.exists /\ ~hCall.hit /\ hCall.source.md5 = hCall.entry.digest) =>
              /\ hCall.error = "none"
              /\ hCall.cache_path = path
              /\ hCall.copied
              /\ after = hCall.source.size
        /\ (hCall.source.exists /\ ~hCall.hit /\ hCall.source.md5 # hCall.entry.digest) =>
              /\ hCall.error = "digest_mismatch"
              /\ ~hCall.copied
              /\ after = hCall.before

\* C24 witness: a miss whose source had another MD5 failed, after an earlier
\* call had copied a source into the cache.
C24_Witness ==
    /\ hCall.op = "file_load"
    /\ hCall.source.exists
    /\ ~hCall.hit
    /\ hCall.source.md5 # hCall.entry.digest
    /\ hCall.error = "digest_mismatch"
    /\ cacheFiles # <<>>

(***************************************************************************)
(*                             TBDirWatcher                                *)
(***************************************************************************)

\* ---- program constants ----
SHUTDOWN_DELAY == 5

\* ---- bounds of the model ----
\* The clock stops at DwMaxTime unless the watcher is being shut down; a
\* sleep lasts up to MaxSleep seconds.
DwMaxTime == 3
MaxSleep == 2

\* The record dw of the directory watcher:
\*   pc             where its thread is: "load" (line 209), "check" (line
\*                  213), "sleep" (line 219), "done"
\*   shutdown       _shutdown is True
\*   shutdown_time  the local variable of _thread_body
\*   finishing      finish() was called; joined: it has returned
\*   reason         history: why the thread ended
\*   seen           history: the time of the first pass that found the flag
\*   late           history: the events processed after the flag was set

\* Mutant: no grace period.
GraceEndNow(t) == t

\* Line 216: "shutdown_time = now + SHUTDOWN_DELAY"
GraceEnd(t) == t + SHUTDOWN_DELAY

\* Lines 209-210 and 221-230: Load() yields a summary event and process_event
\* puts it on the queue. The watcher does not read the wall time of an event:
\* the events of the directory carry the times 1, 2, ...
DwLoadEvent ==
    /\ dw.pc = "load"
    /\ OnlyTB
    /\ nput < MaxEvents
    /\ tbQueue' = tbQueue \cup
            {[id |-> nput + 1, wall_time |-> nput + 1,
              warm |-> tbNow < cStartTime + cDelay]}
    /\ nput' = nput + 1
    /\ dw' = [dw EXCEPT !.late = IF dw.shutdown THEN @ + 1 ELSE @]
    /\ UNCHANGED <<tbNow, watchersDone, cStartTime, cDelay, cShutdown,
                   cpc, cEvent, handled, cHist, tfCheck, tbw>>

\* Load() has no further event.
DwLoadEnd ==
    /\ dw.pc = "load"
    /\ OnlyTB
    /\ dw' = [dw EXCEPT !.pc = "check"]
    /\ UNCHANGED <<tbNow, tbQueue, nput, watchersDone, cStartTime, cDelay, cShutdown,
                   cpc, cEvent, handled, cHist, tfCheck, tbw>>

\* Lines 211-212: Load() raises DirectoryDeletedError.
DwLoadDeleted ==
    /\ dw.pc = "load"
    /\ OnlyTB
    /\ dw' = [dw EXCEPT !.pc = "done", !.reason = "deleted"]
    /\ UNCHANGED <<tbNow, tbQueue, nput, watchersDone, cStartTime, cDelay, cShutdown,
                   cpc, cEvent, handled, cHist, tfCheck, tbw>>

\* Lines 213-218: the test of the flag.
DwCheck ==
    /\ dw.pc = "check"
    /\ OnlyTB
    /\ dw' = IF ~dw.shutdown THEN [dw EXCEPT !.pc = "sleep"]
             ELSE IF dw.shutdown_time = NoTime
             THEN [dw EXCEPT !.pc = "sleep", !.shutdown_time = GraceEnd(tbNow),
                             !.seen = tbNow]
             ELSE IF tbNow > dw.shutdown_time
             THEN [dw EXCEPT !.pc = "done", !.reason = "grace"]
             ELSE [dw EXCEPT !.pc = "sleep"]
    /\ UNCHANGED <<tbNow, tbQueue, nput, watchersDone, cStartTime, cDelay, cShutdown,
                   cpc, cEvent, handled, cHist, tfCheck, tbw>>

\* Line 219: time.sleep(1); the time the pass took passes here.
DwSleep ==
    /\ dw.pc = "sleep"
    /\ OnlyTB
    /\ \/ tbNow < DwMaxTime
       \/ dw.shutdown /\ (dw.shutdown_time = NoTime \/ tbNow <= dw.shutdown_time)
    /\ \E t \in 1..MaxSleep : tbNow' = tbNow + t
    /\ dw' = [dw EXCEPT !.pc = "load"]
    /\ UNCHANGED <<tbQueue, nput, watchersDone, cStartTime, cDelay, cShutdown,
                   cpc, cEvent, handled, cHist, tfCheck, tbw>>

\* TBDirWatcher.shutdown(), as TBWatcher.finish calls it first (line 130).
DwShutdown ==
    /\ ~dw.shutdown
    /\ OnlyTB
    /\ dw' = [dw EXCEPT !.shutdown = TRUE]
    /\ UNCHANGED <<tbNow, tbQueue, nput, watchersDone, cStartTime, cDelay, cShutdown,
                   cpc, cEvent, handled, cHist, tfCheck, tbw>>

\* TBDirWatcher.finish(): shutdown(), then the join begins.
DwFinish ==
    /\ ~dw.finishing
    /\ OnlyTB
    /\ dw' = [dw EXCEPT !.shutdown = TRUE, !.finishing = TRUE]
    /\ UNCHANGED <<tbNow, tbQueue, nput, watchersDone, cStartTime, cDelay, cShutdown,
                   cpc, cEvent, handled, cHist, tfCheck, tbw>>

\* Line 237: the join returns, and finish() with it.
DwJoin ==
    /\ dw.finishing
    /\ OnlyTB
    /\ ~dw.joined
    /\ dw.pc = "done"
    /\ dw' = [dw EXCEPT !.joined = TRUE]
    /\ UNCHANGED <<tbNow, tbQueue, nput, watchersDone, cStartTime, cDelay, cShutdown,
                   cpc, cEvent, handled, cHist, tfCheck, tbw>>

DwNext ==
    \/ DwLoadEvent
    \/ DwLoadEnd
    \/ DwLoadDeleted
    \/ DwCheck
    \/ DwSleep
    \/ DwShutdown
    \/ DwFinish
    \/ DwJoin

\* The thread runs, Load() comes to its end, the sleep and the join return.
DwFairness ==
    /\ WF_vars(DwLoadEnd)
    /\ WF_vars(DwCheck)
    /\ WF_vars(DwSleep)
    /\ WF_vars(DwJoin)

\* C29: watcher two-phase shutdown. The thread ends only because Load()
\* reported the directory deleted or because, with the flag set, a pass found
\* the clock more than SHUTDOWN_DELAY after the first pass that found the
\* flag; such a pass always ends it; until then every pass begins with a
\* Load() whose events are processed; once the flag is set the thread ends, and
\* once finish() is called it returns.
C29_TwoPhaseShutdown ==
    /\ [](/\ dw.pc = "done" <=> dw.reason # "none"
          /\ dw.reason \in {"none", "grace", "deleted"}
          /\ dw.shutdown_time # NoTime =>
                (dw.shutdown /\ dw.shutdown_time = dw.seen + SHUTDOWN_DELAY)
          /\ dw.reason = "grace" =>
                (dw.shutdown /\ dw.seen # NoTime /\ tbNow > dw.seen + SHUTDOWN_DELAY)
          /\ dw.joined => dw.pc = "done")
    /\ [][/\ (dw.pc = "check" /\ dw'.pc # "check" /\ dw.seen # NoTime
                 /\ tbNow > dw.seen + SHUTDOWN_DELAY) => dw'.pc = "done"
          /\ (dw.pc = "check" /\ dw'.pc # "check" /\ dw.shutdown /\ dw.seen = NoTime) =>
                (dw'.pc = "sleep" /\ dw'.seen = tbNow)
          /\ (dw.pc = "sleep" /\ dw'.pc # "sleep") => dw'.pc = "load"
          /\ (dw.pc = "load" /\ dw'.pc = "done") => dw'.reason = "deleted"
         ]_vars
    /\ (dw.shutdown ~> dw.pc = "done")
    /\ (dw.finishing ~> dw.joined)

\* C29 witness: finish() has returned after the grace period, in which the
\* thread processed an event.
C29_Witness ==
    /\ dw.joined
    /\ dw.reason = "grace"
    /\ dw.late > 0

(***************************************************************************)
(*                            TBWatcher.add                                *)
(***************************************************************************)

\* ---- bounds of the model ----
MaxLogdirs == 3

\* The log directories add() is called with, as line 112 has normalised them.
LogDirs == 1..MaxLogdirs

\* The one queue.PriorityQueue() of TBWatcher.__init__ (line 87).
WATCHER_QUEUE == "_watcher_queue"

\* The record tbw of the TBWatcher:
\*   logdirs    _logdirs in insertion order: for each key the TBDirWatcher
\*              built for it, with its queue and whether it was started
\*   consumer   _consumer is not None
\*   consumers  history: every TBEventConsumer built, with its queue and
\*              whether it was started
\*   call       history: the arguments of the last add() and whether the
\*              logdir was registered before it

Registered(w) == {w.logdirs[i].logdir : i \in DOMAIN w.logdirs}

\* Mutant: every add() builds a consumer.
NeedsConsumerAlways(w) == TRUE

\* Line 118: "if not self._consumer"
NeedsConsumer(w) == ~w.consumer

\* TBWatcher.add(logdir, save), lines 111-126.
WatcherAdd(w, logdir, save) ==
    IF logdir \in Registered(w) THEN w
    ELSE LET built == NeedsConsumer(w)
         IN [w EXCEPT
               !.consumer = TRUE,
               !.consumers = IF built
                             THEN Append(@, [queue |-> WATCHER_QUEUE, started |-> TRUE])
                             ELSE @,
               !.logdirs = Append(@, [logdir |-> logdir, save |-> save,
                                      queue |-> WATCHER_QUEUE, started |-> TRUE])]

TbwAdd ==
    /\ OnlyTB
    /\ \E logdir \in LogDirs, save \in BOOLEAN :
        tbw' = [WatcherAdd(tbw, logdir, save) EXCEPT
                  !.call = [logdir |-> logdir, save |-> save,
                            known |-> logdir \in Registered(tbw)]]
    /\ UNCHANGED <<tbNow, tbQueue, nput, watchersDone, cStartTime, cDelay, cShutdown,
                   cpc, cEvent, handled, cHist, dw, tfCheck>>

TbwNext == TbwAdd

\* C32: single consumer. After any sequence of add() calls at most one
\* TBEventConsumer was built, it was started, and there is one as soon as a
\* logdir is registered; every directory watcher was started and has the
\* queue of the consumer; no logdir is registered twice; and an add() for a
\* registered logdir builds nothing and leaves _logdirs and _consumer as they
\* were.
C32_SingleConsumer ==
    /\ [](/\ Len(tbw.consumers) <= 1
          /\ tbw.consumer <=> Len(tbw.consumers) = 1
          /\ tbw.logdirs # <<>> => tbw.consumer
          /\ \A i \in DOMAIN tbw.consumers : tbw.consumers[i].started
          /\ \A i \in DOMAIN tbw.logdirs :
                /\ tbw.logdirs[i].started
                /\ \A j \in DOMAIN tbw.consumers :
                       tbw.logdirs[i].queue = tbw.consumers[j].queue
          /\ \A i, j \in DOMAIN tbw.logdirs :
                tbw.logdirs[i].logdir = tbw.logdirs[j].logdir => i = j)
    /\ [][tbw'.call.known =>
             /\ tbw'.logdirs = tbw.logdirs
             /\ tbw'.consumers = tbw.consumers
             /\ tbw'.consumer = tbw.consumer
         ]_vars

\* C32 witness: add() was called for a registered logdir after every logdir
\* was registered.
C32_Witness ==
    /\ Len(tbw.logdirs) = MaxLogdirs
    /\ tbw.call.known
    /\ \E i \in DOMAIN tbw.logdirs :
          /\ tbw.logdirs[i].logdir = tbw.call.logdir
          /\ tbw.logdirs[i].save # tbw.call.save
    /\ Len(tbw.consumers) = 1

(***************************************************************************)
(*                      is_tfevents_file_created_by                        *)
(***************************************************************************)

\* ---- bounds of the model ----
\* The most components of a hostname, and of what follows <t> in a file name.
MaxHostParts == 2

\* "tfevents" and ".profile_empty"
TFEVENTS == <<116, 102, 101, 118, 101, 110, 116, 115>>
ProfileEmpty == <<46, 112, 114, 111, 102, 105, 108, 101, 95, 101, 109, 112, 116, 121>>

\* What stands where <t> is expected, and what it is: "5", "15", "05" and "-5"
\* are integers; "5x", "h" and "" are not.
TimeTokens ==
    {[text |-> <<53>>, int |-> TRUE, value |-> 5],
     [text |-> <<49, 53>>, int |-> TRUE, value |-> 15],
     [text |-> <<48, 53>>, int |-> TRUE, value |-> 5],
     [text |-> <<45, 53>>, int |-> TRUE, value |-> -5],
     [text |-> <<53, 120>>, int |-> FALSE, value |-> 0],
     [text |-> <<104>>, int |-> FALSE, value |-> 0],
     [text |-> <<>>, int |-> FALSE, value |-> 0]}

\* The components of host names: "h" and "d"; a file name may have "5" there.
HostTokens == {<<104>>, <<100>>}
NameTokens == HostTokens \cup {<<53>>}

SeqsUpTo(S, n) == UNION {[1..k -> S] : k \in 0..n}

\* socket.gethostname(): one component or more.
HostnameParts == SeqsUpTo(HostTokens, MaxHostParts) \ {<<>>}

\* settings._start_time
StartTimes == {0, 5, 10}

\* ".".join(parts)
RECURSIVE JoinDots(_)
JoinDots(parts) ==
    IF parts = <<>> THEN <<>>
    ELSE IF Len(parts) = 1 THEN parts[1]
    ELSE parts[1] \o <<46>> \o JoinDots(Tail(parts))

\* The file names looked at: <prefix>.<word>.<t>.<components...>, without <t>
\* and what follows it, with a word that is not "tfevents", with
\* ".profile_empty" at the end, alone or below the directory "d.tfevents.15.h".
FileParts ==
    {[dir |-> dir, prefix |-> prefix, word |-> word, rest |-> rest, profile |-> profile] :
        dir \in BOOLEAN,
        prefix \in {<<>>, <<<<101>>, <<111>>>>},
        word \in {TFEVENTS, <<116, 102>>},
        rest \in {<<>>} \cup {<<t.text>> \o tail :
                                 t \in TimeTokens, tail \in SeqsUpTo(NameTokens, MaxHostParts)},
        profile \in BOOLEAN}

PathOf(parts) ==
    (IF parts.dir THEN <<100, 46>> \o TFEVENTS \o <<46, 49, 53, 46, 104, 47>> ELSE <<>>)
        \o JoinDots(parts.prefix \o <<parts.word>> \o parts.rest)
        \o (IF parts.profile THEN ProfileEmpty ELSE <<>>)

\* str.endswith
EndsWith(str, suffix) ==
    /\ Len(str) >= Len(suffix)
    /\ SubSeq(str, Len(str) - Len(suffix) + 1, Len(str)) = suffix

\* str.split(sep)
RECURSIVE Split(_, _)
Split(str, sep) ==
    LET at == {i \in DOMAIN str : str[i] = sep} IN
    IF at = {} THEN <<str>>
    ELSE LET i == CHOOSE k \in at : \A j \in at : k <= j IN
         <<SubSeq(str, 1, i - 1)>> \o Split(SubSeq(str, i + 1, Len(str)), sep)

IsDigit(c) == c >= 48 /\ c <= 57

RECURSIVE DigitsValue(_)
DigitsValue(str) ==
    IF str = <<>> THEN 0
    ELSE DigitsValue(SubSeq(str, 1, Len(str) - 1)) * 10 + (str[Len(str)] - 48)

\* int(str) for a string without blanks and underscores: an optional sign and
\* one decimal digit or more; otherwise ValueError.
ParseInt(str) ==
    LET signed == str # <<>> /\ str[1] \in {43, 45}
        digits == IF signed THEN Tail(str) ELSE str
    IN IF digits = <<>> \/ \E i \in DOMAIN digits : ~IsDigit(digits[i])
       THEN [ok |-> FALSE, value |-> 0]
       ELSE [ok |-> TRUE,
             value |-> IF signed /\ str[1] = 45 THEN 0 - DigitsValue(digits)
                       ELSE DigitsValue(digits)]

\* Mutant: a file created in the second of the start is not taken.
CreatedSinceStrict(created_time, start_time) == created_time > start_time

\* Line 76: "created_time >= start_time"
CreatedSince(created_time, start_time) == created_time >= start_time

\* is_tfevents_file_created_by(path, hostname, start_time): "true", "false",
\* or "raise" for the ValueError of line 50.
IsTfeventsFileCreatedBy(path, hostname, start_time) ==
    IF path = <<>> THEN "raise"
    ELSE LET basename == Basename(path)
             fname_components == Split(basename, 46)
             \* list.index, counted from 1; 0: ValueError
             tfevents_idx == IndexOf(fname_components, TFEVENTS)
             host == Split(hostname, 46)
         IN IF EndsWith(basename, ProfileEmpty) THEN "false"
            ELSE IF tfevents_idx = 0 THEN "false"
            ELSE IF \E i \in DOMAIN host :
                       \/ tfevents_idx + 1 + i > Len(fname_components)
                       \/ host[i] # fname_components[tfevents_idx + 1 + i]
            THEN "false"
            ELSE IF tfevents_idx + 1 > Len(fname_components) THEN "false"
            ELSE LET created_time == ParseInt(fname_components[tfevents_idx + 1]) IN
                 IF ~created_time.ok THEN "false"
                 ELSE IF CreatedSince(created_time.value, start_time) THEN "true"
                 ELSE "false"

\* The call on one of the file names.
FilterCall ==
    /\ tfCheck.result = "none"
    /\ OnlyTB
    /\ \E parts \in FileParts, host \in HostnameParts, start_time \in StartTimes :
        tfCheck' = [path |-> PathOf(parts), hostname |-> JoinDots(host),
                    start_time |-> start_time,
                    parts |-> <<[parts EXCEPT !.rest = <<>>], parts.rest, host>>,
                    result |-> IsTfeventsFileCreatedBy(PathOf(parts), JoinDots(host),
                                                       start_time)]
    /\ UNCHANGED <<tbNow, tbQueue, nput, watchersDone, cStartTime, cDelay, cShutdown,
                   cpc, cEvent, handled, cHist, dw, tbw>>

\* The call on the empty path.
FilterCallEmpty ==
    /\ tfCheck.result = "none"
    /\ OnlyTB
    /\ \E host \in HostnameParts, start_time \in StartTimes :
        tfCheck' = [path |-> <<>>, hostname |-> JoinDots(host), start_time |-> start_time,
                    parts |-> <<>>,
                    result |-> IsTfeventsFileCreatedBy(<<>>, JoinDots(host), start_time)]
    /\ UNCHANGED <<tbNow, tbQueue, nput, watchersDone, cStartTime, cDelay, cShutdown,
                   cpc, cEvent, handled, cHist, dw, tbw>>

FilterNext == FilterCall \/ FilterCallEmpty

\* The token of TimeTokens a text is.
TokenOf(text) == CHOOSE t \in TimeTokens : t.text = text

\* C27: filename filter. On a file name <prefix>.tfevents.<t>.<components...>
\* the result is true if and only if <t> is an integer >= start_time and every
\* component of the hostname equals, in order, the component of the name at
\* the same position after <t>; it is false for every name that ends in
\* ".profile_empty" and for every name without a "tfevents" component.
C27_FilenameFilter ==
    (tfCheck.result # "none" /\ tfCheck.path # <<>>) =>
        LET name == tfCheck.parts[1]
            rest == tfCheck.parts[2]
            host == tfCheck.parts[3]
        IN /\ tfCheck.result \in {"true", "false"}
           /\ name.profile => tfCheck.result = "false"
           /\ name.word # TFEVENTS => tfCheck.result = "false"
           /\ (~name.profile /\ name.word = TFEVENTS) =>
                 (tfCheck.result = "true" <=>
                     /\ rest # <<>>
                     /\ TokenOf(rest[1]).int
                     /\ TokenOf(rest[1]).value >= tfCheck.start_time
                     /\ Len(host) <= Len(rest) - 1
                     /\ \A i \in DOMAIN host : rest[i + 1] = host[i])

\* C27 witness: "d.tfevents.15.h/e.o.tfevents.5.h.d" is a file of the host
\* "h.d" started at 5, by the time in its own name and not by the one in the
\* name of its directory.
C27_Witness ==
    /\ tfCheck.result = "true"
    /\ tfCheck.path = <<100, 46>> \o TFEVENTS \o <<46, 49, 53, 46, 104, 47>>
                        \o <<101, 46, 111, 46>> \o TFEVENTS \o <<46, 53, 46, 104, 46, 100>>
    /\ tfCheck.hostname = <<104, 46, 100>>
    /\ tfCheck.start_time = 5

(***************************************************************************)
(*                          THE SPECIFICATIONS                             *)
(***************************************************************************)

\* The process of the agent builds no watcher, history, manifest, cache,
\* artifact or handler: in its specifications their state is absent.
Absent == "absent"

AgentAlone ==
    /\ tbNow = Absent
    /\ tbQueue = Absent
    /\ nput = Absent
    /\ watchersDone = Absent
    /\ cStartTime = Absent
    /\ cDelay = Absent
    /\ cShutdown = Absent
    /\ cpc = Absent
    /\ cEvent = Absent
    /\ handled = Absent
    /\ cHist = Absent
    /\ dw = Absent
    /\ tfCheck = Absent
    /\ tbw = Absent
    /\ hHeap = Absent
    /\ hStep = Absent
    /\ hData = Absent
    /\ hAdded = Absent
    /\ hReturned = Absent
    /\ hDirect = Absent
    /\ hReused = Absent
    /\ hCalls = Absent
    /\ entriesA = Absent
    /\ entriesB = Absent
    /\ cacheFiles = Absent
    /\ cacheDirs = Absent
    /\ lastLookup = Absent
    /\ firstPath = Absent
    /\ lastWrite = Absent
    /\ everWritten = Absent
    /\ writes = Absent
    /\ aFinal = Absent
    /\ aDigest = Absent
    /\ aAddedNew = Absent
    /\ aEntries = Absent
    /\ aFiles = Absent
    /\ aHandles = Absent
    /\ aPool = Absent
    /\ aOp = Absent
    /\ mEntries = Absent
    /\ mJson = Absent
    /\ mRead = Absent
    /\ mStage = Absent
    /\ sfBirth = Absent
    /\ sfCall = Absent
    /\ hSchemes = Absent
    /\ hDefault = Absent
    /\ hCall = Absent
    /\ s3Versioning = Absent

Init == AgentInit /\ AgentAlone

Next == AgentNext

\* The sweep agent.
Spec == Init /\ [][Next]_vars

\* The tfevents watchers and their consumer.
InitTB == AgentIdle /\ TBInit /\ HistInit /\ ManifestInit /\ CacheInit /\ ArtifactInit /\ JsonInit /\ StoreInit /\ HandlerIdle

SpecTB == InitTB /\ [][TBNext]_vars

\* TBHistory under any sequence of calls.
InitHistory == AgentIdle /\ TBInit /\ HistInit /\ ManifestInit /\ CacheInit /\ ArtifactInit /\ JsonInit /\ StoreInit /\ HandlerIdle

SpecHistory == InitHistory /\ [][HistNext]_vars

\* Two manifests filled in any orders.
InitManifest == AgentIdle /\ TBInit /\ HistInit /\ ManifestInit /\ CacheInit /\ ArtifactInit /\ JsonInit /\ StoreInit /\ HandlerIdle

SpecManifest == InitManifest /\ [][ManifestNext]_vars

\* The cache under any sequence of lookups and writes.
InitCache == AgentIdle /\ TBInit /\ HistInit /\ ManifestInit /\ CacheInit /\ ArtifactInit /\ JsonInit /\ StoreInit /\ HandlerIdle

SpecCache == InitCache /\ [][CacheNext]_vars

\* The cache the artifact finds: empty, or holding a file for the content 1,
\* whole or cut short.
CachePreset ==
    /\ cacheFiles \in {<<>>} \cup {[p \in {Md5ObjPath(Md5FileB64(1))} |-> n] : n \in {0, 1}}
    /\ cacheDirs = {Dirname(p) : p \in DOMAIN cacheFiles}
    /\ lastLookup = NoLookup
    /\ firstPath = <<>>
    /\ lastWrite = <<>>
    /\ everWritten = {}
    /\ writes = 0

\* One artifact under any sequence of calls.
InitArtifact ==
    AgentIdle /\ TBInit /\ HistInit /\ ManifestInit /\ CachePreset /\ ArtifactInit /\ JsonInit /\ StoreInit /\ HandlerIdle

SpecArtifact == InitArtifact /\ [][ArtifactNext]_vars

\* A manifest is built, written as JSON and read back.
InitJson == AgentIdle /\ TBInit /\ HistInit /\ ManifestInit /\ CacheInit /\ ArtifactInit /\ JsonInit /\ StoreInit /\ HandlerIdle

SpecJson == InitJson /\ [][JsonNext]_vars

\* Entries are stored, again and again.
InitStore ==
    /\ AgentIdle /\ TBInit /\ HistInit /\ ManifestInit /\ CacheInit /\ ArtifactInit
    /\ JsonInit /\ StoreInit /\ HandlerIdle

SpecStore == InitStore /\ [][StoreNext]_vars

\* A MultiHandler of any configuration stores and loads references.
InitHandlers ==
    /\ AgentIdle /\ TBInit /\ HistInit /\ ManifestInit /\ CacheInit /\ ArtifactInit
    /\ JsonInit /\ StoreInit /\ HandlerInit

SpecHandlers == InitHandlers /\ [][HandlerNext]_vars

\* An S3Handler loads entries of two buckets.
InitS3Load ==
    /\ AgentIdle /\ TBInit /\ HistInit /\ ManifestInit /\ CacheInit /\ ArtifactInit
    /\ JsonInit /\ StoreInit /\ HandlerIdle

SpecS3Load == InitS3Load /\ [][S3LoadNext]_vars

\* An S3Handler stores references to what a bucket holds.
InitS3Store ==
    /\ AgentIdle /\ TBInit /\ HistInit /\ ManifestInit /\ CacheInit /\ ArtifactInit
    /\ JsonInit /\ StoreInit /\ HandlerIdle

SpecS3Store == InitS3Store /\ [][S3StoreNext]_vars

\* A LocalFileHandler loads and stores references to a local path.
InitLocal ==
    /\ AgentIdle /\ TBInit /\ HistInit /\ ManifestInit /\ CacheInit /\ ArtifactInit
    /\ JsonInit /\ StoreInit /\ HandlerIdle

SpecLocal == InitLocal /\ [][LocalNext]_vars

\* The sweep agent with its history kept.
InitTraced ==
    /\ AgentTraced /\ AgentAlone

SpecTraced == InitTraced /\ [][AgentNext]_vars

\* The same agent under KeyboardInterrupts.
TracedNext == AgentNext \/ AgentInterrupts

InitInterrupts ==
    /\ AgentInterruptible /\ AgentAlone

SpecInterrupts == InitInterrupts /\ [][TracedNext]_vars

\* The filter of the tfevents files, called on any of the file names.
InitFilter ==
    /\ AgentIdle /\ TBInit /\ HistInit /\ ManifestInit /\ CacheInit /\ ArtifactInit
    /\ JsonInit /\ StoreInit /\ HandlerIdle

SpecFilter == InitFilter /\ [][FilterNext]_vars

\* One directory watcher, the events of its directory, shutdown() and finish().
InitDirWatcher ==
    /\ AgentIdle /\ TBInit /\ HistInit /\ ManifestInit /\ CacheInit /\ ArtifactInit
    /\ JsonInit /\ StoreInit /\ HandlerIdle

SpecDirWatcher == InitDirWatcher /\ [][DwNext]_vars

\* The same under the fairness of its thread.
SpecDirWatcherLive == SpecDirWatcher /\ DwFairness

\* A TBWatcher and the calls of its add().
InitTbw ==
    /\ AgentIdle /\ TBInit /\ HistInit /\ ManifestInit /\ CacheInit /\ ArtifactInit
    /\ JsonInit /\ StoreInit /\ HandlerIdle

SpecTbw == InitTbw /\ [][TbwNext]_vars

\* The agent of subprocesses with batches of up to MaxBatch commands.
AgentBatched ==
    /\ AgentStart
    /\ function = FALSE
    /\ count \in {0, 1}
    /\ disableFlapping = FALSE
    /\ trace = NoTrace

InitBatch == AgentBatched /\ AgentAlone

SpecBatch == InitBatch /\ [][BatchNext]_vars

\* The agent in function mode, under the fairness of its thread.
AgentInProcess ==
    /\ AgentStart
    /\ function = TRUE
    /\ count = 0
    /\ disableFlapping = FALSE
    /\ trace = NoTrace

InitInProcess == AgentInProcess /\ AgentAlone

SpecInProcess == InitInProcess /\ [][AgentNext]_vars /\ AgentFairness

\* One add_dir of a directory tree on a fresh artifact, thread by thread.
ArtifactWithTree ==
    /\ aFinal = FALSE
    /\ aDigest = <<>>
    /\ aAddedNew = FALSE
    /\ aEntries = <<>>
    /\ aFiles \in Trees
    /\ aHandles = {}
    /\ aOp = NoOp
    /\ aPool = NoPool

InitAddDir ==
    /\ AgentIdle /\ TBInit /\ HistInit /\ ManifestInit /\ CacheInit /\ ArtifactWithTree
    /\ JsonInit /\ StoreInit /\ HandlerIdle

SpecAddDir == InitAddDir /\ [][AddDirNext]_vars

====
